---- MODULE Spec2Model ----
(***************************************************************************)
(* Model of the blob test suite of the engine simulator:                   *)
(*   helper/blobs.go          VersionedHashesFromBlobBundle                *)
(*   suites/blobs/helpers.go  TestBlobTxPool, VerifyTransactionFromNode,   *)
(*                            the fork constants, the Tests table and      *)
(*                            BlobsBaseSpec.Execute                        *)
(* and of the results dashboard (src/unnamed/part_001): makeClientResults, *)
(* testCase, testSuite and LoadTestSuites.                                 *)
(* Fees are counted in Gwei (1e9 wei), everything else in the units of     *)
(* the source.                                                             *)
(***************************************************************************)
EXTENDS Integers, Sequences, FiniteSets, TLC

VARIABLES
    bb,                 \* helper/blobs.go: argument bb of VersionedHashesFromBlobBundle
    commitmentVersion,  \* helper/blobs.go: argument commitmentVersion
    hashesResult,       \* helper/blobs.go: the pair (versionedHashes, error) returned
    tx,                 \* VerifyTransactionFromNode: the locally held transaction
    returnedTx,         \* VerifyTransactionFromNode: what eth.TransactionByHash returns
    ethErr,             \* VerifyTransactionFromNode: the error of eth.TransactionByHash
    verifyResult,       \* VerifyTransactionFromNode: the error returned
    pool,               \* TestBlobTxPool
    added,              \* the transactions handed to AddBlobTransaction so far;
                        \* under Execute, those an earlier test case added
    bs,                 \* Execute: the receiver, a BlobsBaseSpec
    pc,                 \* Execute: the statement to run next
    stepId,             \* Execute: the loop index
    ctx,                \* Execute: blobTestCtx, NilPtr before it is created
    cl,                 \* t.CLMock and the chain of the client that builds payloads
    override,           \* what the latest payload override rendered to
    log,                \* the steps announced by t.Logf, each with its error
    allData,            \* dashboard: the results file $.getJSON hands over
    dashboard           \* dashboard: the app object

hashVars == <<bb, commitmentVersion, hashesResult>>
verifyVars == <<tx, returnedTx, ethErr, verifyResult>>
execVars == <<bs, pc, stepId, ctx, cl, override, log>>
dashVars == <<allData, dashboard>>
vars == <<bb, commitmentVersion, hashesResult, tx, returnedTx, ethErr,
          verifyResult, pool, added, bs, pc, stepId, ctx, cl, override, log,
          allData, dashboard>>

----------------------------------------------------------------------------
(* Go values: slices and pointers can be nil.                              *)

NilSlice == [isNil |-> TRUE, elems |-> <<>>]

Slice(s) == [isNil |-> FALSE, elems |-> s]

NilPtr == [isNil |-> TRUE, val |-> 0]

Ptr(v) == [isNil |-> FALSE, val |-> v]

None == "none"

----------------------------------------------------------------------------
(* Bounds of the model.                                                    *)

MaxCommitments == 2

MaxCommitmentValue == 2

----------------------------------------------------------------------------
(* helper/blobs.go                                                         *)

HashLength == 32

\* crypto/sha256.Sum256: a fixed 32-byte digest of the commitment. The
\* digest function is a stand-in that separates the commitments of the model.
Sum256(c) ==
    [i \in 1..HashLength |-> (37 * c + 11 * i + c * i + 5) % 256]

\* common.BytesToHash: crops b from the left when it is longer than a hash,
\* and right-aligns it when it is shorter.
BytesToHash(b) ==
    LET c == IF Len(b) > HashLength
             THEN SubSeq(b, Len(b) - HashLength + 1, Len(b))
             ELSE b
        pad == HashLength - Len(c)
    IN  [i \in 1..HashLength |-> IF i <= pad THEN 0 ELSE c[i - pad]]

\* Mutant of VersionedHash: the digest is appended whole (sha256Hash[0:]).
VersionedHashKeepFirst(commitment, version) ==
    BytesToHash(<<version>> \o Sum256(commitment))

\* Body of the loop, blobs.go lines 20-21.
VersionedHash(commitment, version) ==
    LET sha256Hash == Sum256(commitment)
    IN  BytesToHash(<<version>> \o SubSeq(sha256Hash, 2, HashLength))

\* A bundle is NilPtr or Ptr([Commitments |-> slice]).
\* Mutant of VersionedHashesFromBlobBundle: nil commitments are taken for an
\* empty list.
VersionedHashesFromBlobBundleNilAsEmpty(bundle, version) ==
    IF bundle.isNil
    THEN [hashes |-> NilSlice, err |-> "nil blob bundle"]
    ELSE LET cs == bundle.val.Commitments.elems
         IN  [hashes |-> Slice([i \in 1..Len(cs) |-> VersionedHash(cs[i], version)]),
              err |-> None]

\* Mutant of VersionedHashesFromBlobBundle: every entry is derived from the
\* first commitment.
VersionedHashesFromBlobBundleFirstOnly(bundle, version) ==
    IF bundle.isNil
    THEN [hashes |-> NilSlice, err |-> "nil blob bundle"]
    ELSE IF bundle.val.Commitments.isNil
    THEN [hashes |-> NilSlice, err |-> "nil commitments"]
    ELSE LET cs == bundle.val.Commitments.elems
         IN  [hashes |-> Slice([i \in 1..Len(cs) |-> VersionedHash(cs[1], version)]),
              err |-> None]

\* Mutant of VersionedHashesFromBlobBundle: a nil bundle is reported as nil
\* commitments.
VersionedHashesFromBlobBundleOneMessage(bundle, version) ==
    IF bundle.isNil \/ bundle.val.Commitments.isNil
    THEN [hashes |-> NilSlice, err |-> "nil commitments"]
    ELSE LET cs == bundle.val.Commitments.elems
         IN  [hashes |-> Slice([i \in 1..Len(cs) |-> VersionedHash(cs[i], version)]),
              err |-> None]

VersionedHashesFromBlobBundle(bundle, version) ==
    IF bundle.isNil
    THEN [hashes |-> NilSlice, err |-> "nil blob bundle"]
    ELSE IF bundle.val.Commitments.isNil
    THEN [hashes |-> NilSlice, err |-> "nil commitments"]
    ELSE LET cs == bundle.val.Commitments.elems
         IN  [hashes |-> Slice([i \in 1..Len(cs) |-> VersionedHash(cs[i], version)]),
              err |-> None]

----------------------------------------------------------------------------
(* Transactions (e_typ.Transaction): the accessors VerifyTransactionFromNode *)
(* reads, plus the sender.                                                   *)

TxFields ==
    <<"Nonce", "Gas", "GasPrice", "Value", "To", "Data", "AccessList",
      "ChainId", "BlobGas", "GasFeeCap", "GasTipCap", "BlobGasFeeCap",
      "BlobHashes", "Type">>

BlobTxType == 3

BaseTx ==
    [From |-> 0, Nonce |-> 0, Gas |-> 100000, GasPrice |-> 1, Value |-> 0,
     To |-> Ptr(256), Data |-> Slice(<<>>), AccessList |-> Slice(<<>>),
     ChainId |-> 7, BlobGas |-> 131072, GasFeeCap |-> 1, GasTipCap |-> 1,
     BlobGasFeeCap |-> 1, BlobHashes |-> Slice(<<VersionedHash(1, 1)>>),
     Type |-> BlobTxType, Sidecar |-> <<0>>]

\* tx.Hash(): the hash covers the signed fields in their wire encoding, where
\* an absent value and an empty one are encoded alike; it is modelled
\* without collisions.
Enc(s) == IF s.isNil THEN <<>> ELSE s.elems

TxHash(t) ==
    <<t.Type, t.ChainId, t.Nonce, t.GasTipCap, t.GasFeeCap, t.Gas,
      IF t.To.isNil THEN <<>> ELSE <<t.To.val>>, t.Value, Enc(t.Data),
      Enc(t.AccessList), t.BlobGasFeeCap, Enc(t.BlobHashes), t.From>>

----------------------------------------------------------------------------
(* TestBlobTxPool, helpers.go lines 15-24. Transactions is NilPtr (a nil    *)
(* map) or Ptr(f) with f a function from hashes to transactions.            *)

ZeroPool == [Transactions |-> NilPtr]

MapSet(m, k, v) ==
    [h \in (DOMAIN m) \cup {k} |-> IF h = k THEN v ELSE m[h]]

EmptyMap == [h \in {} |-> 0]

\* Mutant of AddBlobTransaction: the map is made anew on every call.
AddBlobTransactionFreshMap(p, t) ==
    [p EXCEPT !.Transactions = Ptr(MapSet(EmptyMap, TxHash(t), t))]

\* Mutant of AddBlobTransaction: the key does not cover the sender.
AddBlobTransactionKeyWithoutSender(p, t) ==
    LET m == IF p.Transactions.isNil THEN EmptyMap ELSE p.Transactions.val
    IN  [p EXCEPT !.Transactions = Ptr(MapSet(m, TxHash([t EXCEPT !.From = 0]), t))]

AddBlobTransaction(p, t) ==
    LET m == IF p.Transactions.isNil THEN EmptyMap ELSE p.Transactions.val
    IN  [p EXCEPT !.Transactions = Ptr(MapSet(m, TxHash(t), t))]

PoolKeys(p) == IF p.Transactions.isNil THEN {} ELSE DOMAIN p.Transactions.val

----------------------------------------------------------------------------
(* VerifyTransactionFromNode, helpers.go lines 28-79.                      *)

Mismatch(name, field, bad, ret, loc) ==
    [name |-> name, field |-> field, bad |-> bad, returned |-> ret, local |-> loc]

\* The comparisons of lines 35-76, in the order of the code.
FieldChecks(r, t) ==
    << Mismatch("nonce", "Nonce", r.Nonce # t.Nonce, r.Nonce, t.Nonce),
       Mismatch("gas", "Gas", r.Gas # t.Gas, r.Gas, t.Gas),
       Mismatch("gas price", "GasPrice", r.GasPrice # t.GasPrice, r.GasPrice, t.GasPrice),
       Mismatch("value", "Value", r.Value # t.Value, r.Value, t.Value),
       Mismatch("to", "To",
                ~r.To.isNil /\ ~t.To.isNil /\ r.To.val # t.To.val, r.To, t.To),
       Mismatch("data", "Data",
                ~r.Data.isNil /\ ~t.Data.isNil /\ r.Data.elems # t.Data.elems,
                r.Data, t.Data),
       Mismatch("access list", "AccessList",
                ~r.AccessList.isNil /\ ~t.AccessList.isNil /\ r.AccessList # t.AccessList,
                r.AccessList, t.AccessList),
       Mismatch("chain id", "ChainId", r.ChainId # t.ChainId, r.ChainId, t.ChainId),
       Mismatch("data gas", "BlobGas", r.BlobGas # t.BlobGas, r.BlobGas, t.BlobGas),
       Mismatch("max fee per gas", "GasFeeCap",
                r.GasFeeCap # t.GasFeeCap, r.GasFeeCap, t.GasFeeCap),
       Mismatch("max priority fee per gas", "GasTipCap",
                r.GasTipCap # t.GasTipCap, r.GasTipCap, t.GasTipCap),
       Mismatch("max fee per data gas", "BlobGasFeeCap",
                r.BlobGasFeeCap # t.BlobGasFeeCap, r.BlobGasFeeCap, t.BlobGasFeeCap),
       Mismatch("blob versioned hashes", "BlobHashes",
                ~r.BlobHashes.isNil /\ ~t.BlobHashes.isNil /\ r.BlobHashes # t.BlobHashes,
                r.BlobHashes, t.BlobHashes),
       Mismatch("type", "Type", r.Type # t.Type, r.Type, t.Type) >>

NoError == [kind |-> "nil", name |-> "", field |-> "", returned |-> 0, local |-> 0]

\* Mutant of MismatchError: the local value is printed on both sides.
MismatchErrorLocalTwice(c) ==
    [kind |-> "mismatch", name |-> c.name, field |-> c.field,
     returned |-> c.local, local |-> c.local]

\* fmt.Errorf("<name> mismatch: ... != ...", returned value, local value)
MismatchError(c) ==
    [kind |-> "mismatch", name |-> c.name, field |-> c.field,
     returned |-> c.returned, local |-> c.local]

\* Mutant of VerifyTransactionFromNode: the fields are compared whether or
\* not the call to the node failed.
VerifyTransactionFromNodeCompareAnyway(r, err, t) ==
    LET cs == FieldChecks(r, t)
        failing == {i \in 1..Len(cs) : cs[i].bad}
    IN  IF failing # {}
        THEN MismatchError(cs[CHOOSE i \in failing : \A j \in failing : i <= j])
        ELSE IF err # None
        THEN [kind |-> "eth", name |-> err, field |-> "", returned |-> 0, local |-> 0]
        ELSE NoError

VerifyTransactionFromNode(r, err, t) ==
    IF err # None
    THEN [kind |-> "eth", name |-> err, field |-> "", returned |-> 0, local |-> 0]
    ELSE LET cs == FieldChecks(r, t)
             failing == {i \in 1..Len(cs) : cs[i].bad}
         IN  IF failing = {}
             THEN NoError
             ELSE MismatchError(cs[CHOOSE i \in failing : \A j \in failing : i <= j])

----------------------------------------------------------------------------
(* Fork specific constants, helpers.go lines 93-115.                       *)

DATA_GAS_PER_BLOB == 131072

MIN_DATA_GASPRICE == 1

MAX_DATA_GAS_PER_BLOCK == 786432

TARGET_DATA_GAS_PER_BLOCK == 393216

TARGET_BLOBS_PER_BLOCK == TARGET_DATA_GAS_PER_BLOCK \div DATA_GAS_PER_BLOB

MAX_BLOBS_PER_BLOCK == MAX_DATA_GAS_PER_BLOCK \div DATA_GAS_PER_BLOB

DATA_GASPRICE_UPDATE_FRACTION == 3338477

BLOB_COMMITMENT_VERSION_KZG == 1

\* <<(a * n) \div m, (a * n) % m>>, computed by doubling so that no
\* intermediate value leaves the range of the model checker's integers.
RECURSIVE MulDivMod(_, _, _)
MulDivMod(a, n, m) ==
    IF n = 0
    THEN <<0, 0>>
    ELSE LET h == MulDivMod(a, n \div 2, m)
             t == 2 * h[2] + (n % 2) * a
         IN  <<2 * h[1] + t \div m, t % m>>

RECURSIVE FakeExponentialLoop(_, _, _, _, _)
FakeExponentialLoop(i, output, numerator_accum, numerator, denominator) ==
    IF numerator_accum > 0
    THEN FakeExponentialLoop(i + 1, output + numerator_accum,
                             MulDivMod(numerator_accum, numerator, denominator * i)[1],
                             numerator, denominator)
    ELSE output \div denominator

\* The fork's approximation of factor * e^(numerator / denominator).
FakeExponential(factor, numerator, denominator) ==
    FakeExponentialLoop(1, 0, factor * denominator, numerator, denominator)

GetDataGasPrice(excessDataGas) ==
    FakeExponential(MIN_DATA_GASPRICE, excessDataGas, DATA_GASPRICE_UPDATE_FRACTION)

RECURSIVE MinExcessLoop(_, _, _)
MinExcessLoop(current_excess_data_gas, current_data_gas_price, data_gas_price) ==
    IF current_data_gas_price < data_gas_price
    THEN MinExcessLoop(current_excess_data_gas + DATA_GAS_PER_BLOB,
                       GetDataGasPrice(current_excess_data_gas + DATA_GAS_PER_BLOB),
                       data_gas_price)
    ELSE current_excess_data_gas

GetMinExcessDataBlobsForDataGasPrice(data_gas_price) ==
    MinExcessLoop(0, 0, data_gas_price) \div DATA_GAS_PER_BLOB

DATA_GAS_COST_INCREMENT_EXCEED_BLOBS == GetMinExcessDataBlobsForDataGasPrice(2)

----------------------------------------------------------------------------
(* The test steps: zero values of the step structs, as a Go literal that    *)
(* names only some fields leaves the others.                                *)

SendBlobTransactions ==
    [kind |-> "SendBlobTransactions", BlobTransactionSendCount |-> 0,
     BlobsPerTransaction |-> 0, BlobTransactionMaxDataGasCost |-> 0,
     BlobTransactionGasFeeCap |-> 0, BlobTransactionGasTipCap |-> 0,
     AccountIndex |-> 0, ClientIndex |-> 0, ReplaceTransactions |-> FALSE]

NewPayloads ==
    [kind |-> "NewPayloads", PayloadCount |-> 0, ExpectedIncludedBlobCount |-> 0,
     ExpectedBlobs |-> NilSlice, VersionedHashes |-> NilPtr,
     PayloadCustomizer |-> NilPtr, GetPayloadDelay |-> 0]

LaunchClients ==
    [kind |-> "LaunchClients", SkipAddingToCLMock |-> FALSE,
     SkipConnectingToBootnode |-> FALSE]

SendModifiedLatestPayload ==
    [kind |-> "SendModifiedLatestPayload", ClientID |-> 0,
     VersionedHashes |-> NilPtr, ExpectedStatus |-> ""]

\* &VersionedHashes{Blobs: ..., HashVersions: ...}
VersionedHashes(blobs, hashVersions) ==
    Ptr([Blobs |-> blobs, HashVersions |-> hashVersions])

\* &helper.CustomPayloadData{DataGasUsed: pUint64(v)}
CustomPayloadData(v) == Ptr([DataGasUsed |-> Ptr(v)])

\* helper.GetBlobList
GetBlobList(startId, count) == [i \in 1..count |-> startId + i - 1]

Invalid == "INVALID"

----------------------------------------------------------------------------
(* The Tests table, helpers.go lines 125-934. BlobTransactionGasFeeCap and  *)
(* BlobTransactionGasTipCap are in Gwei (big.NewInt(1e9) is 1); 0 is nil.   *)

BlobsBaseSpec(name, sequence) ==
    [Name |-> name, GetPayloadDelay |-> 0, BlobsForkHeight |-> 0,
     BlobTestSequence |-> sequence]

\* Mutant of TestGenesis: one full payload more is expected before the empty one.
TestGenesisOneMore ==
    BlobsBaseSpec("Blob Transactions On Block 1, Cancun Genesis", <<
        [SendBlobTransactions EXCEPT
            !.BlobTransactionSendCount = TARGET_BLOBS_PER_BLOCK,
            !.BlobTransactionMaxDataGasCost = 1],
        [NewPayloads EXCEPT
            !.ExpectedIncludedBlobCount = TARGET_BLOBS_PER_BLOCK,
            !.ExpectedBlobs = Slice(GetBlobList(0, TARGET_BLOBS_PER_BLOCK))],
        [SendBlobTransactions EXCEPT
            !.BlobTransactionSendCount =
                DATA_GAS_COST_INCREMENT_EXCEED_BLOBS
                    \div (MAX_BLOBS_PER_BLOCK - TARGET_BLOBS_PER_BLOCK) + 2,
            !.BlobsPerTransaction = MAX_BLOBS_PER_BLOCK,
            !.BlobTransactionMaxDataGasCost = 1],
        [NewPayloads EXCEPT
            !.PayloadCount =
                DATA_GAS_COST_INCREMENT_EXCEED_BLOBS
                    \div (MAX_BLOBS_PER_BLOCK - TARGET_BLOBS_PER_BLOCK) + 1,
            !.ExpectedIncludedBlobCount = MAX_BLOBS_PER_BLOCK],
        [NewPayloads EXCEPT !.ExpectedIncludedBlobCount = 0],
        [NewPayloads EXCEPT !.ExpectedIncludedBlobCount = MAX_BLOBS_PER_BLOCK] >>)

TestGenesis ==
    BlobsBaseSpec("Blob Transactions On Block 1, Cancun Genesis", <<
        [SendBlobTransactions EXCEPT
            !.BlobTransactionSendCount = TARGET_BLOBS_PER_BLOCK,
            !.BlobTransactionMaxDataGasCost = 1],
        [NewPayloads EXCEPT
            !.ExpectedIncludedBlobCount = TARGET_BLOBS_PER_BLOCK,
            !.ExpectedBlobs = Slice(GetBlobList(0, TARGET_BLOBS_PER_BLOCK))],
        [SendBlobTransactions EXCEPT
            !.BlobTransactionSendCount =
                DATA_GAS_COST_INCREMENT_EXCEED_BLOBS
                    \div (MAX_BLOBS_PER_BLOCK - TARGET_BLOBS_PER_BLOCK) + 1,
            !.BlobsPerTransaction = MAX_BLOBS_PER_BLOCK,
            !.BlobTransactionMaxDataGasCost = 1],
        [NewPayloads EXCEPT
            !.PayloadCount =
                DATA_GAS_COST_INCREMENT_EXCEED_BLOBS
                    \div (MAX_BLOBS_PER_BLOCK - TARGET_BLOBS_PER_BLOCK),
            !.ExpectedIncludedBlobCount = MAX_BLOBS_PER_BLOCK],
        [NewPayloads EXCEPT !.ExpectedIncludedBlobCount = 0],
        [NewPayloads EXCEPT !.ExpectedIncludedBlobCount = MAX_BLOBS_PER_BLOCK] >>)

TestOrderingSingleAccount ==
    BlobsBaseSpec("Blob Transaction Ordering, Single Account", <<
        [SendBlobTransactions EXCEPT
            !.BlobTransactionSendCount = 5,
            !.BlobsPerTransaction = MAX_BLOBS_PER_BLOCK - 1,
            !.BlobTransactionMaxDataGasCost = 100],
        [SendBlobTransactions EXCEPT
            !.BlobTransactionSendCount = 5,
            !.BlobsPerTransaction = 1,
            !.BlobTransactionMaxDataGasCost = 100],
        [NewPayloads EXCEPT
            !.PayloadCount = 4,
            !.ExpectedIncludedBlobCount = MAX_BLOBS_PER_BLOCK - 1],
        [NewPayloads EXCEPT
            !.PayloadCount = 2,
            !.ExpectedIncludedBlobCount = MAX_BLOBS_PER_BLOCK] >>)

\* Mutant of TestOrderingMultipleAccounts: both batches come from account 0.
TestOrderingMultipleAccountsSameAccount ==
    BlobsBaseSpec("Blob Transaction Ordering, Multiple Accounts", <<
        [SendBlobTransactions EXCEPT
            !.BlobTransactionSendCount = 5,
            !.BlobsPerTransaction = MAX_BLOBS_PER_BLOCK - 1,
            !.BlobTransactionMaxDataGasCost = 100,
            !.AccountIndex = 0],
        [SendBlobTransactions EXCEPT
            !.BlobTransactionSendCount = 5,
            !.BlobsPerTransaction = 1,
            !.BlobTransactionMaxDataGasCost = 100,
            !.AccountIndex = 0],
        [NewPayloads EXCEPT
            !.PayloadCount = 5,
            !.ExpectedIncludedBlobCount = MAX_BLOBS_PER_BLOCK] >>)

TestOrderingMultipleAccounts ==
    BlobsBaseSpec("Blob Transaction Ordering, Multiple Accounts", <<
        [SendBlobTransactions EXCEPT
            !.BlobTransactionSendCount = 5,
            !.BlobsPerTransaction = MAX_BLOBS_PER_BLOCK - 1,
            !.BlobTransactionMaxDataGasCost = 100,
            !.AccountIndex = 0],
        [SendBlobTransactions EXCEPT
            !.BlobTransactionSendCount = 5,
            !.BlobsPerTransaction = 1,
            !.BlobTransactionMaxDataGasCost = 100,
            !.AccountIndex = 1],
        [NewPayloads EXCEPT
            !.PayloadCount = 5,
            !.ExpectedIncludedBlobCount = MAX_BLOBS_PER_BLOCK] >>)

\* Mutant of TestOrderingMultipleClients: the second client is launched
\* after the transactions were sent to it.
TestOrderingMultipleClientsLaunchLast ==
    BlobsBaseSpec("Blob Transaction Ordering, Multiple Clients", <<
        [NewPayloads EXCEPT
            !.PayloadCount = 1,
            !.ExpectedIncludedBlobCount = 0],
        [SendBlobTransactions EXCEPT
            !.BlobTransactionSendCount = 5,
            !.BlobsPerTransaction = MAX_BLOBS_PER_BLOCK - 1,
            !.BlobTransactionMaxDataGasCost = 100,
            !.AccountIndex = 0,
            !.ClientIndex = 0],
        [SendBlobTransactions EXCEPT
            !.BlobTransactionSendCount = 5,
            !.BlobsPerTransaction = 1,
            !.BlobTransactionMaxDataGasCost = 100,
            !.AccountIndex = 1,
            !.ClientIndex = 1],
        [LaunchClients EXCEPT !.SkipAddingToCLMock = TRUE],
        [NewPayloads EXCEPT
            !.PayloadCount = 5,
            !.ExpectedIncludedBlobCount = MAX_BLOBS_PER_BLOCK,
            !.GetPayloadDelay = 2] >>)

TestOrderingMultipleClients ==
    BlobsBaseSpec("Blob Transaction Ordering, Multiple Clients", <<
        [LaunchClients EXCEPT !.SkipAddingToCLMock = TRUE],
        [NewPayloads EXCEPT
            !.PayloadCount = 1,
            !.ExpectedIncludedBlobCount = 0],
        [SendBlobTransactions EXCEPT
            !.BlobTransactionSendCount = 5,
            !.BlobsPerTransaction = MAX_BLOBS_PER_BLOCK - 1,
            !.BlobTransactionMaxDataGasCost = 100,
            !.AccountIndex = 0,
            !.ClientIndex = 0],
        [SendBlobTransactions EXCEPT
            !.BlobTransactionSendCount = 5,
            !.BlobsPerTransaction = 1,
            !.BlobTransactionMaxDataGasCost = 100,
            !.AccountIndex = 1,
            !.ClientIndex = 1],
        [NewPayloads EXCEPT
            !.PayloadCount = 5,
            !.ExpectedIncludedBlobCount = MAX_BLOBS_PER_BLOCK,
            !.GetPayloadDelay = 2] >>)

\* Mutant of TestReplace: the last transaction does not replace.
TestReplaceLastNotReplacing ==
    BlobsBaseSpec("Replace Blob Transactions", <<
        [SendBlobTransactions EXCEPT
            !.BlobTransactionSendCount = 1, !.BlobTransactionMaxDataGasCost = 1,
            !.BlobTransactionGasFeeCap = 1, !.BlobTransactionGasTipCap = 1],
        [SendBlobTransactions EXCEPT
            !.BlobTransactionSendCount = 1, !.BlobTransactionMaxDataGasCost = 1,
            !.BlobTransactionGasFeeCap = 10, !.BlobTransactionGasTipCap = 10,
            !.ReplaceTransactions = TRUE],
        [SendBlobTransactions EXCEPT
            !.BlobTransactionSendCount = 1, !.BlobTransactionMaxDataGasCost = 1,
            !.BlobTransactionGasFeeCap = 100, !.BlobTransactionGasTipCap = 100,
            !.ReplaceTransactions = TRUE],
        [SendBlobTransactions EXCEPT
            !.BlobTransactionSendCount = 1, !.BlobTransactionMaxDataGasCost = 1,
            !.BlobTransactionGasFeeCap = 1000, !.BlobTransactionGasTipCap = 1000],
        [NewPayloads EXCEPT
            !.ExpectedIncludedBlobCount = 1,
            !.ExpectedBlobs = Slice(<<3>>)] >>)

TestReplace ==
    BlobsBaseSpec("Replace Blob Transactions", <<
        [SendBlobTransactions EXCEPT
            !.BlobTransactionSendCount = 1, !.BlobTransactionMaxDataGasCost = 1,
            !.BlobTransactionGasFeeCap = 1, !.BlobTransactionGasTipCap = 1],
        [SendBlobTransactions EXCEPT
            !.BlobTransactionSendCount = 1, !.BlobTransactionMaxDataGasCost = 1,
            !.BlobTransactionGasFeeCap = 10, !.BlobTransactionGasTipCap = 10,
            !.ReplaceTransactions = TRUE],
        [SendBlobTransactions EXCEPT
            !.BlobTransactionSendCount = 1, !.BlobTransactionMaxDataGasCost = 1,
            !.BlobTransactionGasFeeCap = 100, !.BlobTransactionGasTipCap = 100,
            !.ReplaceTransactions = TRUE],
        [SendBlobTransactions EXCEPT
            !.BlobTransactionSendCount = 1, !.BlobTransactionMaxDataGasCost = 1,
            !.BlobTransactionGasFeeCap = 1000, !.BlobTransactionGasTipCap = 1000,
            !.ReplaceTransactions = TRUE],
        [NewPayloads EXCEPT
            !.ExpectedIncludedBlobCount = 1,
            !.ExpectedBlobs = Slice(<<3>>)] >>)

\* The two steps every "NewPayloadV3 Versioned Hashes" test starts its
\* blob-carrying payload with (lines 398-404, 423-429, ...).
SendTargetBlobs ==
    [SendBlobTransactions EXCEPT
        !.BlobTransactionSendCount = TARGET_BLOBS_PER_BLOCK,
        !.BlobTransactionMaxDataGasCost = 1]

ExpectTwoBlobs ==
    [NewPayloads EXCEPT
        !.ExpectedIncludedBlobCount = 2,
        !.ExpectedBlobs = Slice(<<0, 1>>)]

TestMissingHash ==
    BlobsBaseSpec("NewPayloadV3 Versioned Hashes, Missing Hash", <<
        SendTargetBlobs,
        [ExpectTwoBlobs EXCEPT
            !.VersionedHashes = VersionedHashes(Slice(<<0>>), NilSlice)] >>)

TestExtraHash ==
    BlobsBaseSpec("NewPayloadV3 Versioned Hashes, Extra Hash", <<
        SendTargetBlobs,
        [ExpectTwoBlobs EXCEPT
            !.VersionedHashes = VersionedHashes(Slice(<<0, 1, 2>>), NilSlice)] >>)

TestOutOfOrder ==
    BlobsBaseSpec("NewPayloadV3 Versioned Hashes, Out of Order", <<
        SendTargetBlobs,
        [ExpectTwoBlobs EXCEPT
            !.VersionedHashes = VersionedHashes(Slice(<<1, 0>>), NilSlice)] >>)

TestRepeatedHash ==
    BlobsBaseSpec("NewPayloadV3 Versioned Hashes, Repeated Hash", <<
        SendTargetBlobs,
        [ExpectTwoBlobs EXCEPT
            !.VersionedHashes = VersionedHashes(Slice(<<0, 1, 1>>), NilSlice)] >>)

TestIncorrectHash ==
    BlobsBaseSpec("NewPayloadV3 Versioned Hashes, Incorrect Hash", <<
        SendTargetBlobs,
        [ExpectTwoBlobs EXCEPT
            !.VersionedHashes = VersionedHashes(Slice(<<0, 2>>), NilSlice)] >>)

TestIncorrectVersion ==
    BlobsBaseSpec("NewPayloadV3 Versioned Hashes, Incorrect Version", <<
        SendTargetBlobs,
        [ExpectTwoBlobs EXCEPT
            !.VersionedHashes =
                VersionedHashes(Slice(<<0, 1>>),
                                Slice(<<BLOB_COMMITMENT_VERSION_KZG,
                                        BLOB_COMMITMENT_VERSION_KZG + 1>>))] >>)

TestNilHashes ==
    BlobsBaseSpec("NewPayloadV3 Versioned Hashes, Nil Hashes", <<
        SendTargetBlobs,
        [ExpectTwoBlobs EXCEPT
            !.VersionedHashes = VersionedHashes(NilSlice, NilSlice)] >>)

TestEmptyHashes ==
    BlobsBaseSpec("NewPayloadV3 Versioned Hashes, Empty Hashes", <<
        SendTargetBlobs,
        [ExpectTwoBlobs EXCEPT
            !.VersionedHashes = VersionedHashes(Slice(<<>>), NilSlice)] >>)

\* Mutant of TestNonEmptyHashes: the expected list is the one of the other
\* Versioned Hashes entries, the expected count still zero.
TestNonEmptyHashesListsBlobs ==
    BlobsBaseSpec("NewPayloadV3 Versioned Hashes, Non-Empty Hashes", <<
        [NewPayloads EXCEPT
            !.ExpectedIncludedBlobCount = 0,
            !.ExpectedBlobs = Slice(<<0, 1>>),
            !.VersionedHashes = VersionedHashes(Slice(<<0, 1>>), NilSlice)] >> )

TestNonEmptyHashes ==
    BlobsBaseSpec("NewPayloadV3 Versioned Hashes, Non-Empty Hashes", <<
        [NewPayloads EXCEPT
            !.ExpectedIncludedBlobCount = 0,
            !.ExpectedBlobs = Slice(<<>>),
            !.VersionedHashes = VersionedHashes(Slice(<<0, 1>>), NilSlice)] >> )

\* The secondary client of the Syncing tests and the step addressed to it.
LaunchSyncingClient ==
    [LaunchClients EXCEPT
        !.SkipAddingToCLMock = TRUE,
        !.SkipConnectingToBootnode = TRUE]

SendModifiedToSyncing(vh) ==
    [SendModifiedLatestPayload EXCEPT
        !.ClientID = 1,
        !.VersionedHashes = vh,
        !.ExpectedStatus = Invalid]

TestMissingHashSyncing ==
    BlobsBaseSpec("NewPayloadV3 Versioned Hashes, Missing Hash (Syncing)", <<
        NewPayloads, SendTargetBlobs, ExpectTwoBlobs, LaunchSyncingClient,
        SendModifiedToSyncing(VersionedHashes(Slice(<<0>>), NilSlice)) >>)

TestExtraHashSyncing ==
    BlobsBaseSpec("NewPayloadV3 Versioned Hashes, Extra Hash (Syncing)", <<
        NewPayloads, SendTargetBlobs, ExpectTwoBlobs, LaunchSyncingClient,
        SendModifiedToSyncing(VersionedHashes(Slice(<<0, 1, 2>>), NilSlice)) >>)

TestOutOfOrderSyncing ==
    BlobsBaseSpec("NewPayloadV3 Versioned Hashes, Out of Order (Syncing)", <<
        NewPayloads, SendTargetBlobs, ExpectTwoBlobs, LaunchSyncingClient,
        SendModifiedToSyncing(VersionedHashes(Slice(<<1, 0>>), NilSlice)) >>)

TestRepeatedHashSyncing ==
    BlobsBaseSpec("NewPayloadV3 Versioned Hashes, Repeated Hash (Syncing)", <<
        NewPayloads, SendTargetBlobs, ExpectTwoBlobs, LaunchSyncingClient,
        SendModifiedToSyncing(VersionedHashes(Slice(<<0, 1, 1>>), NilSlice)) >>)

TestIncorrectHashSyncing ==
    BlobsBaseSpec("NewPayloadV3 Versioned Hashes, Incorrect Hash (Syncing)", <<
        NewPayloads, SendTargetBlobs, ExpectTwoBlobs, LaunchSyncingClient,
        SendModifiedToSyncing(VersionedHashes(Slice(<<0, 2>>), NilSlice)) >>)

TestIncorrectVersionSyncing ==
    BlobsBaseSpec("NewPayloadV3 Versioned Hashes, Incorrect Version (Syncing)", <<
        NewPayloads, SendTargetBlobs, ExpectTwoBlobs, LaunchSyncingClient,
        SendModifiedToSyncing(
            VersionedHashes(Slice(<<0, 1>>),
                            Slice(<<BLOB_COMMITMENT_VERSION_KZG,
                                    BLOB_COMMITMENT_VERSION_KZG + 1>>))) >>)

TestNilHashesSyncing ==
    BlobsBaseSpec("NewPayloadV3 Versioned Hashes, Nil Hashes (Syncing)", <<
        NewPayloads, SendTargetBlobs, ExpectTwoBlobs, LaunchSyncingClient,
        SendModifiedToSyncing(VersionedHashes(NilSlice, NilSlice)) >>)

TestEmptyHashesSyncing ==
    BlobsBaseSpec("NewPayloadV3 Versioned Hashes, Empty Hashes (Syncing)", <<
        NewPayloads, SendTargetBlobs, ExpectTwoBlobs, LaunchSyncingClient,
        SendModifiedToSyncing(VersionedHashes(Slice(<<>>), NilSlice)) >>)

TestNonEmptyHashesSyncing ==
    BlobsBaseSpec("NewPayloadV3 Versioned Hashes, Non-Empty Hashes (Syncing)", <<
        NewPayloads,
        [NewPayloads EXCEPT
            !.ExpectedIncludedBlobCount = 0,
            !.ExpectedBlobs = Slice(<<>>)],
        LaunchSyncingClient,
        SendModifiedToSyncing(VersionedHashes(Slice(<<0, 1>>), NilSlice)) >>)

TestDataGasUsedOne ==
    BlobsBaseSpec("Incorrect DataGasUsed: Non-Zero on Zero Blobs", <<
        [NewPayloads EXCEPT
            !.ExpectedIncludedBlobCount = 0,
            !.PayloadCustomizer = CustomPayloadData(1)] >>)

\* Mutant of TestDataGasUsedPerBlob: the customizer writes the data gas of
\* the blobs the payload has.
TestDataGasUsedPerBlobOfNoBlob ==
    BlobsBaseSpec("Incorrect DataGasUsed: DATA_GAS_PER_BLOB on Zero Blobs", <<
        [NewPayloads EXCEPT
            !.ExpectedIncludedBlobCount = 0,
            !.PayloadCustomizer = CustomPayloadData(0 * DATA_GAS_PER_BLOB)] >>)

TestDataGasUsedPerBlob ==
    BlobsBaseSpec("Incorrect DataGasUsed: DATA_GAS_PER_BLOB on Zero Blobs", <<
        [NewPayloads EXCEPT
            !.ExpectedIncludedBlobCount = 0,
            !.PayloadCustomizer = CustomPayloadData(DATA_GAS_PER_BLOB)] >>)

Tests ==
    << TestGenesis, TestOrderingSingleAccount, TestOrderingMultipleAccounts,
       TestOrderingMultipleClients, TestReplace,
       TestMissingHash, TestExtraHash, TestOutOfOrder, TestRepeatedHash,
       TestIncorrectHash, TestIncorrectVersion, TestNilHashes, TestEmptyHashes,
       TestNonEmptyHashes,
       TestMissingHashSyncing, TestExtraHashSyncing, TestOutOfOrderSyncing,
       TestRepeatedHashSyncing, TestIncorrectHashSyncing,
       TestIncorrectVersionSyncing, TestNilHashesSyncing, TestEmptyHashesSyncing,
       TestNonEmptyHashesSyncing,
       TestDataGasUsedOne, TestDataGasUsedPerBlob >>

----------------------------------------------------------------------------
(* Blob content and the rendering of a VersionedHashes override.           *)

\* The commitment stand-in of a blob: a pure, one-to-one function of its ID.
Commitment(blobID) == 2 * blobID + 1

BlobVersionedHash(blobID, version) == VersionedHash(Commitment(blobID), version)

\* The versioned hashes a payload with these blobs must be sent with.
CanonicalHashes(blobIDs) ==
    Slice([i \in 1..Len(blobIDs) |->
              BlobVersionedHash(blobIDs[i], BLOB_COMMITMENT_VERSION_KZG)])

\* Mutant of RenderVersionedHashes: every position gets the default version.
RenderVersionedHashesDefaultVersion(v) ==
    IF v.Blobs.isNil
    THEN NilSlice
    ELSE Slice([i \in 1..Len(v.Blobs.elems) |->
                   BlobVersionedHash(v.Blobs.elems[i], BLOB_COMMITMENT_VERSION_KZG)])

\* Rendering of a VersionedHashes override: nil Blobs render to nil; position
\* i gets HashVersions[i] when there is one and the default version otherwise.
RenderVersionedHashes(v) ==
    IF v.Blobs.isNil
    THEN NilSlice
    ELSE Slice([i \in 1..Len(v.Blobs.elems) |->
                   BlobVersionedHash(
                       v.Blobs.elems[i],
                       IF ~v.HashVersions.isNil /\ Len(v.HashVersions.elems) >= i
                       THEN v.HashVersions.elems[i]
                       ELSE BLOB_COMMITMENT_VERSION_KZG)])

----------------------------------------------------------------------------
(* The client under test and the block-production mock, as the steps see    *)
(* them. A client is assumed to follow the fork's rules.                    *)

Accounts == 0..1

DefaultGasFeeCap == 1

DefaultGasTipCap == 1

Genesis ==
    [ttd |-> FALSE, PayloadProductionClientDelay |-> 0, pending |-> <<>>,
     nonce |-> [a \in Accounts |-> 0], ExcessDataGas |-> 0, DataGasUsed |-> 0,
     payloads |-> <<>>]

\* Excess data gas of the block built on a parent with these header fields.
CalcExcessDataGas(parentExcess, parentUsed) ==
    IF parentExcess + parentUsed < TARGET_DATA_GAS_PER_BLOCK
    THEN 0
    ELSE parentExcess + parentUsed - TARGET_DATA_GAS_PER_BLOCK

\* Submission of t to the client's pool: <<accepted, pending'>>. A pending
\* transaction of the same account and nonce is replaced by a higher bid.
AddToTxPool(pending, nonce, t) ==
    LET same == {i \in 1..Len(pending) :
                    pending[i].From = t.From /\ pending[i].Nonce = t.Nonce}
    IN  IF t.Nonce < nonce[t.From]
        THEN <<FALSE, pending>>
        ELSE IF same = {}
        THEN <<TRUE, Append(pending, t)>>
        ELSE LET i == CHOOSE j \in same : TRUE
             IN  IF t.GasTipCap > pending[i].GasTipCap
                    /\ t.GasFeeCap > pending[i].GasFeeCap
                 THEN <<TRUE, [pending EXCEPT ![i] = t]>>
                 ELSE <<FALSE, pending>>

\* Block filling (ordering rule): among the transactions whose nonce is the
\* next of their account, the highest priority fee first and the earliest
\* submitted among equals; one that does not fit the remaining blob capacity
\* or bids less than the blob gas price is deferred together with the rest
\* of its account. The result is the inclusion order as indices of pending.
RECURSIVE FillBlock(_, _, _, _, _, _)
FillBlock(pending, nonce, used, deferred, price, acc) ==
    LET heads == {i \in 1..Len(pending) :
                     /\ pending[i].From \notin deferred
                     /\ pending[i].Nonce = nonce[pending[i].From]}
    IN  IF heads = {}
        THEN acc
        ELSE LET best == CHOOSE i \in heads : \A j \in heads :
                             \/ pending[i].GasTipCap > pending[j].GasTipCap
                             \/ /\ pending[i].GasTipCap = pending[j].GasTipCap
                                /\ i <= j
                 t == pending[best]
                 fits == /\ used + Len(t.Sidecar) <= MAX_BLOBS_PER_BLOCK
                         /\ t.BlobGasFeeCap >= price
             IN  IF fits
                 THEN FillBlock(pending, [nonce EXCEPT ![t.From] = @ + 1],
                                used + Len(t.Sidecar), deferred, price,
                                Append(acc, best))
                 ELSE FillBlock(pending, nonce, used, deferred \cup {t.From},
                                price, acc)

RECURSIVE Flatten(_)
Flatten(ss) == IF ss = <<>> THEN <<>> ELSE Head(ss) \o Flatten(Tail(ss))

RECURSIVE Remaining(_, _, _)
Remaining(pending, chosen, i) ==
    IF i > Len(pending)
    THEN <<>>
    ELSE (IF \E k \in 1..Len(chosen) : chosen[k] = i THEN <<>> ELSE <<pending[i]>>)
         \o Remaining(pending, chosen, i + 1)

\* One block produced on top of the latest one.
ProduceSingleBlock(c) ==
    LET excess == CalcExcessDataGas(c.ExcessDataGas, c.DataGasUsed)
        chosen == FillBlock(c.pending, c.nonce, 0, {}, GetDataGasPrice(excess), <<>>)
        blobs == Flatten([k \in 1..Len(chosen) |-> c.pending[chosen[k]].Sidecar])
    IN  [c EXCEPT
            !.pending = Remaining(c.pending, chosen, 1),
            !.nonce = [a \in Accounts |->
                          c.nonce[a] + Cardinality({k \in 1..Len(chosen) :
                                                       c.pending[chosen[k]].From = a})],
            !.ExcessDataGas = excess,
            !.DataGasUsed = Len(blobs) * DATA_GAS_PER_BLOB,
            !.payloads = Append(c.payloads, blobs)]

LatestBlobs(c) == c.payloads[Len(c.payloads)]

\* engine_newPayloadV3 of a client that follows the rules: the payload is
\* invalid when the hashes are not the canonical ones of its blobs or its
\* data gas used is not that of its blobs.
NewPayloadStatus(blobs, hashes, dataGasUsed, syncing) ==
    IF hashes # CanonicalHashes(blobs) \/ dataGasUsed # Len(blobs) * DATA_GAS_PER_BLOB
    THEN Invalid
    ELSE IF syncing THEN "SYNCING" ELSE "VALID"

----------------------------------------------------------------------------
(* The steps. A step maps the state it runs in, st = [ctx, cl, pool,        *)
(* override, err], to the state it leaves; err is the error it returns.     *)
(* ctx is the BlobTestContext: the blob ID counter, the number of engine    *)
(* clients and, per account, the next nonce to issue. override records, for *)
(* the latest payload of a step that overrides it, what the override        *)
(* renders to next to the canonical values of that payload.                 *)

NewContext == [CurrentBlobID |-> 0, Engines |-> 1, nextNonce |-> [a \in Accounts |-> 0]]

NoOverride ==
    [present |-> FALSE, ofHashes |-> FALSE, hashes |-> NilSlice,
     canonical |-> NilSlice, dataGasUsed |-> 0, blobs |-> <<>>]

GetBlobsPerTransaction(step) ==
    IF step.BlobsPerTransaction = 0 THEN 1 ELSE step.BlobsPerTransaction

GetPayloadCount(step) ==
    IF step.PayloadCount = 0 THEN 1 ELSE step.PayloadCount

\* The transaction the factory builds for one iteration of the step.
BlobTransaction(step, nonce, blobIDs) ==
    LET feeCap == IF step.BlobTransactionGasFeeCap = 0
                  THEN DefaultGasFeeCap ELSE step.BlobTransactionGasFeeCap
        tipCap == IF step.BlobTransactionGasTipCap = 0
                  THEN DefaultGasTipCap ELSE step.BlobTransactionGasTipCap
    IN  [BaseTx EXCEPT
            !.From = step.AccountIndex,
            !.Nonce = nonce,
            !.GasPrice = feeCap,
            !.GasFeeCap = feeCap,
            !.GasTipCap = tipCap,
            !.BlobGasFeeCap = step.BlobTransactionMaxDataGasCost,
            !.BlobGas = Len(blobIDs) * DATA_GAS_PER_BLOB,
            !.BlobHashes = CanonicalHashes(blobIDs),
            !.Sidecar = blobIDs]

\* Mutant of SendOne: a replacing transaction carries the blobs of the one
\* it replaces.
SendOneReuseOnReplace(step, st) ==
    LET a == step.AccountIndex
        next == st.ctx.nextNonce[a]
        nonce == IF step.ReplaceTransactions THEN next - 1 ELSE next
        count == GetBlobsPerTransaction(step)
        start == IF step.ReplaceTransactions
                 THEN st.ctx.CurrentBlobID - count ELSE st.ctx.CurrentBlobID
        blobIDs == GetBlobList(start, count)
        t == BlobTransaction(step, nonce, blobIDs)
        r == AddToTxPool(st.cl.pending, st.cl.nonce, t)
    IN  IF step.ReplaceTransactions /\ next = 0
        THEN [st EXCEPT !.err = "no transaction to replace"]
        ELSE IF ~r[1]
        THEN [st EXCEPT !.err = "transaction rejected"]
        ELSE [st EXCEPT
                 !.cl.pending = r[2],
                 !.pool = AddBlobTransaction(st.pool, t),
                 !.ctx.CurrentBlobID = start + count,
                 !.ctx.nextNonce[a] = nonce + 1]

\* One transaction of a SendBlobTransactions step.
SendOne(step, st) ==
    LET a == step.AccountIndex
        next == st.ctx.nextNonce[a]
        nonce == IF step.ReplaceTransactions THEN next - 1 ELSE next
        blobIDs == GetBlobList(st.ctx.CurrentBlobID, GetBlobsPerTransaction(step))
        t == BlobTransaction(step, nonce, blobIDs)
        r == AddToTxPool(st.cl.pending, st.cl.nonce, t)
    IN  IF step.ReplaceTransactions /\ next = 0
        THEN [st EXCEPT !.err = "no transaction to replace"]
        ELSE IF ~r[1]
        THEN [st EXCEPT !.err = "transaction rejected"]
        ELSE [st EXCEPT
                 !.cl.pending = r[2],
                 !.pool = AddBlobTransaction(st.pool, t),
                 !.ctx.CurrentBlobID = @ + Len(blobIDs),
                 !.ctx.nextNonce[a] = nonce + 1]

RECURSIVE SendLoop(_, _, _)
SendLoop(step, left, st) ==
    IF left = 0 \/ st.err # None
    THEN st
    ELSE SendLoop(step, left - 1, SendOne(step, st))

ExecuteSendBlobTransactions(step, st) ==
    IF step.ClientIndex >= st.ctx.Engines
    THEN [st EXCEPT !.err = "no such client"]
    ELSE SendLoop(step, step.BlobTransactionSendCount, st)

\* One payload of a NewPayloads step: produce it, check the blob bundle,
\* then send the overridden payload when the step overrides anything.
PayloadOne(step, st) ==
    LET c == ProduceSingleBlock(st.cl)
        blobs == LatestBlobs(c)
        overrides == ~step.VersionedHashes.isNil \/ ~step.PayloadCustomizer.isNil
        hashes == IF step.VersionedHashes.isNil
                  THEN CanonicalHashes(blobs)
                  ELSE RenderVersionedHashes(step.VersionedHashes.val)
        used == IF ~step.PayloadCustomizer.isNil
                   /\ ~step.PayloadCustomizer.val.DataGasUsed.isNil
                THEN step.PayloadCustomizer.val.DataGasUsed.val
                ELSE c.DataGasUsed
        err == IF Len(blobs) # step.ExpectedIncludedBlobCount
               THEN "blob count"
               ELSE IF ~step.ExpectedBlobs.isNil /\ blobs # step.ExpectedBlobs.elems
               THEN "blob list"
               ELSE IF overrides /\ NewPayloadStatus(blobs, hashes, used, FALSE) # Invalid
               THEN "status"
               ELSE None
    IN  [st EXCEPT
            !.cl = c,
            !.override = [present |-> overrides,
                          ofHashes |-> ~step.VersionedHashes.isNil,
                          hashes |-> hashes,
                          canonical |-> CanonicalHashes(blobs),
                          dataGasUsed |-> used, blobs |-> blobs],
            !.err = err]

RECURSIVE PayloadLoop(_, _, _)
PayloadLoop(step, left, st) ==
    IF left = 0 \/ st.err # None
    THEN st
    ELSE PayloadLoop(step, left - 1, PayloadOne(step, st))

ExecuteNewPayloads(step, st) == PayloadLoop(step, GetPayloadCount(step), st)

ExecuteLaunchClients(step, st) == [st EXCEPT !.ctx.Engines = @ + 1]

ExecuteSendModifiedLatestPayload(step, st) ==
    IF step.ClientID >= st.ctx.Engines
    THEN [st EXCEPT !.err = "no such client"]
    ELSE IF st.cl.payloads = <<>>
    THEN [st EXCEPT !.err = "no payload"]
    ELSE LET blobs == LatestBlobs(st.cl)
             hashes == IF step.VersionedHashes.isNil
                       THEN CanonicalHashes(blobs)
                       ELSE RenderVersionedHashes(step.VersionedHashes.val)
             status == NewPayloadStatus(blobs, hashes, st.cl.DataGasUsed, TRUE)
         IN  [st EXCEPT
                 !.override = [present |-> ~step.VersionedHashes.isNil,
                               ofHashes |-> ~step.VersionedHashes.isNil,
                               hashes |-> hashes,
                               canonical |-> CanonicalHashes(blobs),
                               dataGasUsed |-> st.cl.DataGasUsed, blobs |-> blobs],
                 !.err = IF status # step.ExpectedStatus THEN "status" ELSE None]

\* step.Execute(blobTestCtx), dispatched on the kind of the step.
StepExecute(step, st) ==
    CASE step.kind = "SendBlobTransactions" -> ExecuteSendBlobTransactions(step, st)
      [] step.kind = "NewPayloads" -> ExecuteNewPayloads(step, st)
      [] step.kind = "LaunchClients" -> ExecuteLaunchClients(step, st)
      [] step.kind = "SendModifiedLatestPayload" ->
             ExecuteSendModifiedLatestPayload(step, st)

----------------------------------------------------------------------------
(* Bounds of the inputs.                                                   *)

MaxGetPayloadDelay == 1

MaxDiff == 2

MaxAdds == 3

MaxPoolNonce == 1

----------------------------------------------------------------------------
(* VersionedHashesFromBlobBundle on the bundles of the model.              *)

SeqsUpTo(S, n) == UNION {[1..k -> S] : k \in 0..n}

Bundles ==
    {NilPtr} \cup {Ptr([Commitments |-> NilSlice])}
    \cup {Ptr([Commitments |-> Slice(q)]) :
              q \in SeqsUpTo(0..MaxCommitmentValue, MaxCommitments)}

Versions == {0, BLOB_COMMITMENT_VERSION_KZG, BLOB_COMMITMENT_VERSION_KZG + 1, 255}

HashPending == [hashes |-> NilSlice, err |-> "pending"]

HashIdle == bb = NilPtr /\ commitmentVersion = 0 /\ hashesResult = HashPending

CallVersionedHashes ==
    /\ hashesResult = HashPending
    /\ hashesResult' = VersionedHashesFromBlobBundle(bb, commitmentVersion)
    /\ UNCHANGED <<bb, commitmentVersion, verifyVars, pool, added, execVars, dashVars>>

----------------------------------------------------------------------------
(* VerifyTransactionFromNode on a local transaction and a returned one that *)
(* differs from it in at most MaxDiff fields.                               *)

FieldValues(f) ==
    CASE f = "To" -> {NilPtr, Ptr(256), Ptr(257)}
      [] f \in {"Data", "AccessList"} -> {NilSlice, Slice(<<>>), Slice(<<1>>)}
      [] f = "BlobHashes" ->
             {NilSlice, Slice(<<VersionedHash(1, 1)>>), Slice(<<VersionedHash(3, 1)>>)}
      [] OTHER -> {BaseTx[f], BaseTx[f] + 1}

Variants(t) ==
    UNION {{[t EXCEPT ![TxFields[i]] = v] : v \in FieldValues(TxFields[i])} :
              i \in 1..Len(TxFields)}

RECURSIVE Within(_, _)
Within(t, k) ==
    IF k = 0 THEN {t} ELSE UNION {Variants(u) : u \in Within(t, k - 1)}

VerifyPending ==
    [kind |-> "pending", name |-> "", field |-> "", returned |-> 0, local |-> 0]

VerifyIdle ==
    tx = BaseTx /\ returnedTx = BaseTx /\ ethErr = None /\ verifyResult = NoError

CallVerify ==
    /\ verifyResult = VerifyPending
    /\ verifyResult' = VerifyTransactionFromNode(returnedTx, ethErr, tx)
    /\ UNCHANGED <<tx, returnedTx, ethErr, hashVars, pool, added, execVars, dashVars>>

----------------------------------------------------------------------------
(* AddBlobTransaction on a pool, starting from the zero value.             *)

PoolTxs ==
    {[BaseTx EXCEPT !.From = a, !.Nonce = n, !.Sidecar = <<b>>] :
         a \in Accounts, n \in 0..MaxPoolNonce, b \in 0..1}

PoolIdle == pool = ZeroPool /\ added = <<>>

CallAddBlobTransaction ==
    /\ Len(added) < MaxAdds
    /\ \E t \in PoolTxs :
           /\ pool' = AddBlobTransaction(pool, t)
           /\ added' = Append(added, t)
    /\ UNCHANGED <<hashVars, verifyVars, execVars, dashVars>>

----------------------------------------------------------------------------
(* BlobsBaseSpec.Execute, helpers.go lines 949-969.                        *)

ExecIdle ==
    /\ bs = TestGenesis /\ pc = "done" /\ stepId = 0 /\ ctx = NilPtr
    /\ cl = Genesis /\ override = NoOverride /\ log = <<>>

\* t.CLMock.WaitForTTD(), line 951
WaitForTTD ==
    /\ pc = "WaitForTTD"
    /\ cl' = [cl EXCEPT !.ttd = TRUE]
    /\ pc' = "NewContext"
    /\ UNCHANGED <<bs, stepId, ctx, override, log, pool, added, hashVars, verifyVars, dashVars>>

\* Mutant of NewBlobTestContext: the context is given the pool that is
\* already there.
NewBlobTestContextKeepPool ==
    /\ pc = "NewContext"
    /\ ctx' = Ptr(NewContext)
    /\ pool' = pool
    /\ pc' = "SetDelay"
    /\ UNCHANGED <<bs, stepId, cl, override, log, added, hashVars, verifyVars, dashVars>>

\* lines 953-956
NewBlobTestContext ==
    /\ pc = "NewContext"
    /\ ctx' = Ptr(NewContext)
    /\ pool' = ZeroPool
    /\ pc' = "SetDelay"
    /\ UNCHANGED <<bs, stepId, cl, override, log, added, hashVars, verifyVars, dashVars>>

\* Mutant of SetPayloadDelay: the delay is assigned whatever GetPayloadDelay
\* is.
SetPayloadDelayAlways ==
    /\ pc = "SetDelay"
    /\ cl' = [cl EXCEPT !.PayloadProductionClientDelay = bs.GetPayloadDelay]
    /\ pc' = "loop"
    /\ UNCHANGED <<bs, stepId, ctx, override, log, pool, added, hashVars, verifyVars, dashVars>>

\* lines 958-960
SetPayloadDelay ==
    /\ pc = "SetDelay"
    /\ cl' = IF bs.GetPayloadDelay # 0
             THEN [cl EXCEPT !.PayloadProductionClientDelay = bs.GetPayloadDelay]
             ELSE cl
    /\ pc' = "loop"
    /\ UNCHANGED <<bs, stepId, ctx, override, log, pool, added, hashVars, verifyVars, dashVars>>

\* Mutant of AfterStep: the error is reported without ending the test case.
AfterStepCarryOn(err, i) == [pc |-> "loop", stepId |-> i + 1]

\* lines 964-966: t.Fatalf ends the test case, otherwise the loop goes on.
AfterStep(err, i) ==
    IF err # None
    THEN [pc |-> "fatal", stepId |-> i]
    ELSE [pc |-> "loop", stepId |-> i + 1]

\* The state the step of this iteration runs in.
Current ==
    [ctx |-> ctx.val, cl |-> cl, pool |-> pool, override |-> override, err |-> None]

\* What step.Execute can leave: a failed call to a client (an error before
\* anything changed), or the outcome of the step's own work and checks.
ClientError == [Current EXCEPT !.err = "client error"]

StepOutcome == StepExecute(bs.BlobTestSequence[stepId + 1], Current)

AtStep(kind) ==
    /\ pc = "loop"
    /\ stepId < Len(bs.BlobTestSequence)
    /\ bs.BlobTestSequence[stepId + 1].kind = kind

\* Mutant of Iterate: the step is reported by its index in the sequence.
IterateZeroBased(r) ==
    /\ log' = Append(log, [step |-> stepId, err |-> r.err])
    /\ ctx' = Ptr(r.ctx)
    /\ cl' = r.cl
    /\ pool' = r.pool
    /\ override' = r.override
    /\ pc' = AfterStep(r.err, stepId).pc
    /\ stepId' = AfterStep(r.err, stepId).stepId
    /\ UNCHANGED <<bs, added, hashVars, verifyVars, dashVars>>

\* One iteration of the loop of lines 962-967, the step leaving r.
Iterate(r) ==
    /\ log' = Append(log, [step |-> stepId + 1, err |-> r.err])
    /\ ctx' = Ptr(r.ctx)
    /\ cl' = r.cl
    /\ pool' = r.pool
    /\ override' = r.override
    /\ pc' = AfterStep(r.err, stepId).pc
    /\ stepId' = AfterStep(r.err, stepId).stepId
    /\ UNCHANGED <<bs, added, hashVars, verifyVars, dashVars>>

StepSendBlobTransactions ==
    /\ AtStep("SendBlobTransactions")
    /\ \/ Iterate(ClientError)
       \/ \E r \in {StepOutcome} : Iterate(r)

StepNewPayloads ==
    /\ AtStep("NewPayloads")
    /\ \/ Iterate(ClientError)
       \/ \E r \in {StepOutcome} : Iterate(r)

StepLaunchClients ==
    /\ AtStep("LaunchClients")
    /\ \/ Iterate(ClientError)
       \/ \E r \in {StepOutcome} : Iterate(r)

StepSendModifiedLatestPayload ==
    /\ AtStep("SendModifiedLatestPayload")
    /\ \/ Iterate(ClientError)
       \/ \E r \in {StepOutcome} : Iterate(r)

\* The loop is over: Execute returns.
Return ==
    /\ pc = "loop"
    /\ stepId >= Len(bs.BlobTestSequence)
    /\ pc' = "done"
    /\ UNCHANGED <<bs, stepId, ctx, cl, override, log, pool, added, hashVars, verifyVars, dashVars>>

----------------------------------------------------------------------------
(* The results dashboard (src/unnamed/part_001). JavaScript values carry   *)
(* their kind; an object is a function from its keys, enumerated in the    *)
(* order of ClientNames; knockout observables are the fields they hold.    *)

Undefined == [kind |-> "undefined"]
Bool(b) == [kind |-> "boolean", val |-> b]
Str(s) == [kind |-> "string", val |-> s]
Num(n) == [kind |-> "number", val |-> n]
Obj(f) == [kind |-> "object", val |-> f]
Arr(s) == [kind |-> "array", val |-> s]

\* A timestamp of the results file, sec seconds after the epoch.
Timestamp(sec) == [kind |-> "string", rfc3339 |-> sec]

\* Date.parse: milliseconds since the epoch.
DateParse(s) == 1000 * s.rfc3339

\* v.f : undefined unless v is an object that has f.
Get(v, f) ==
    IF v.kind = "object" /\ f \in DOMAIN v.val THEN v.val[f] ELSE Undefined

\* The property key a value is converted to.
ToPropertyKey(v) == IF v.kind = "string" THEN v.val ELSE "[object Object]"

HasOwnProperty(o, v) == ToPropertyKey(v) \in DOMAIN o.val

\* !!v
Truthy(v) ==
    CASE v.kind = "undefined" -> FALSE
      [] v.kind = "boolean" -> v.val
      [] v.kind = "string" -> v.val # ""
      [] v.kind = "number" -> v.val # 0
      [] OTHER -> TRUE

\* The client names that appear in results files, in key order.
ClientNames == <<"go-ethereum", "nethermind">>

Keys(o) == SelectSeq(ClientNames, LAMBDA k : k \in DOMAIN o.val)

\* jQuery.map, the arguments of its callback: (element, index) for each
\* element of an array, (value, key) for each key of an object.
MapArguments(v) ==
    LET ks == Keys(v)
    IN  IF v.kind = "array"
        THEN [i \in 1..Len(v.val) |-> [first |-> v.val[i], second |-> Num(i - 1)]]
        ELSE [i \in 1..Len(ks) |-> [first |-> v.val[ks[i]], second |-> Str(ks[i])]]

\* jQuery.map, its value: what the callback returned, undefined left out.
MapResults(returned) == SelectSeq(returned, LAMBDA x : x.kind # "undefined")

\* ko.observableArray(initialValues): initialValues || []
ObservableArray(v) == IF Truthy(v) THEN v.val ELSE <<>>

\* lines 10-17
testClientResult(pass, details, name, version, instantiated, logfile) ==
    Obj([pass |-> pass, details |-> details, clientName |-> name,
         clientVersion |-> version, clientInstantiated |-> instantiated,
         logfile |-> logfile])

\* The callback of lines 20-35; its parameters are named as in the source.
ClientResultCallback(clientName, testResult, clientInfos) ==
    LET has == HasOwnProperty(clientInfos, clientName)
        clientInfo == Get(clientInfos, ToPropertyKey(clientName))
    IN  testClientResult(
            Get(testResult, "pass"),
            Get(testResult, "details"),
            IF has THEN Get(clientInfo, "name") ELSE Str("Missing client info."),
            IF has THEN Get(clientInfo, "versionInfo") ELSE Str(""),
            IF has THEN Get(clientInfo, "instantiatedAt") ELSE Undefined,
            IF has THEN Get(clientInfo, "logFile") ELSE Str(""))

\* The array line 20 builds.
MappedClientResults(clientResults, clientInfos) ==
    LET args == MapArguments(clientResults)
    IN  Arr(MapResults([i \in 1..Len(args) |->
               ClientResultCallback(args[i].first, args[i].second, clientInfos)]))

\* lines 19-36: the array of line 20 is built and dropped; the function has
\* no return statement.
makeClientResults(clientResults, clientInfos) ==
    LET built == MappedClientResults(clientResults, clientInfos)
    IN  Undefined

\* lines 39-43
testResult(data) == [pass |-> Get(data, "pass"), details |-> Get(data, "details")]

\* lines 45-53
testCase(data) ==
    Obj([id |-> Get(data, "id"),
         name |-> Get(data, "name"),
         description |-> Get(data, "description"),
         start |-> DateParse(Get(data, "start")),
         end |-> DateParse(Get(data, "end")),
         summaryResult |-> testResult(Get(data, "summaryResult")),
         clientResults |->
             ObservableArray(makeClientResults(Get(data, "clientResults"),
                                               Get(data, "clientInfo")))])

\* moment.duration(ended - started); there is none between no dates.
Duration(started, ended) ==
    IF started.kind = "number" /\ ended.kind = "number"
    THEN [valid |-> TRUE, ms |-> ended.val - started.val]
    ELSE [valid |-> FALSE, ms |-> 0]

\* lines 55-61: the pieces of the text, in order.
calcDuration(duration) ==
    IF ~duration.valid
    THEN <<"NaN", "s ">>
    ELSE LET hours == (duration.ms \div 3600000) % 24
             minutes == (duration.ms \div 60000) % 60
             seconds == (duration.ms \div 1000) % 60
         IN  (IF hours > 0 THEN <<hours, "hr ">> ELSE <<>>)
             \o (IF minutes > 0 THEN <<minutes, "min ">> ELSE <<>>)
             \o <<seconds, "s ">>

\* Math.min.apply and Math.max.apply of lines 72-73.
Earliest(s) ==
    IF s = <<>> THEN [kind |-> "Infinity"]
    ELSE Num(CHOOSE m \in {s[i] : i \in 1..Len(s)} : \A j \in 1..Len(s) : m <= s[j])

Latest(s) ==
    IF s = <<>> THEN [kind |-> "-Infinity"]
    ELSE Num(CHOOSE m \in {s[i] : i \in 1..Len(s)} : \A j \in 1..Len(s) : m >= s[j])

\* reduce(function (a, b) { return a + b; }, 0)
RECURSIVE Sum(_)
Sum(s) == IF s = <<>> THEN 0 ELSE s[1] + Sum(Tail(s))

\* lines 63-83
testSuite(data) ==
    LET items == MapArguments(Get(data, "testCases"))
        testCases == MapResults([i \in 1..Len(items) |-> testCase(items[i].first)])
        earliest == Earliest([i \in 1..Len(testCases) |-> testCases[i].val.start])
        latest == Latest([i \in 1..Len(testCases) |-> testCases[i].val.end])
        fails == Sum([i \in 1..Len(testCases) |->
                         IF ~Truthy(testCases[i].val.summaryResult.pass) THEN 1 ELSE 0])
        successes == Sum([i \in 1..Len(testCases) |->
                             IF Truthy(testCases[i].val.summaryResult.pass) THEN 1 ELSE 0])
    IN  Obj([id |-> Get(data, "id"),
             suiteLabel |-> <<"Suite", Get(data, "id")>>,
             suiteDetailLabel |-> <<"CollapseSuite", Get(data, "id")>>,
             name |-> Get(data, "name"),
             description |-> Get(data, "description"),
             testCases |-> testCases,
             started |-> earliest,
             ended |-> latest,
             passes |-> successes,
             fails |-> fails,
             duration |-> calcDuration(Duration(earliest, latest))])

\* lines 2-7
app == [errorState |-> FALSE, errorMessage |-> "", testSuites |-> <<>>]

MaxTestCases == 2

\* What a results file holds for one test case: the verdict, the result of
\* each of the first clients of ClientNames, the info of the first clients.
ClientResultData(pass) ==
    Obj([pass |-> Bool(pass),
         details |-> Str(IF pass THEN "" ELSE "failed")])

ClientInfoData(id) ==
    Obj([id |-> Str(id), name |-> Str(id), versionInfo |-> Str("v1"),
         instantiatedAt |-> Timestamp(1), logFile |-> Str("client.log")])

FirstClients(k) == {ClientNames[i] : i \in 1..k}

CaseChoices ==
    UNION {[pass : BOOLEAN,
            clientResults : [FirstClients(k) -> {ClientResultData(TRUE), ClientResultData(FALSE)}],
            clientInfo : {[n \in FirstClients(j) |-> ClientInfoData(n)]}] :
           k \in 0..Len(ClientNames), j \in 0..Len(ClientNames)}

TestCaseData(i, c) ==
    Obj([id |-> Num(i), name |-> Str("test"), description |-> Str(""),
         start |-> Timestamp(i), end |-> Timestamp(i + 1),
         summaryResult |-> ClientResultData(c.pass),
         clientResults |-> Obj(c.clientResults),
         clientInfo |-> Obj(c.clientInfo)])

SuiteData(cs) ==
    Obj([id |-> Num(0), name |-> Str("blobs"), description |-> Str(""),
         testCases |-> Arr([i \in 1..Len(cs) |-> TestCaseData(i, cs[i])])])

DashIdle == allData = Arr(<<>>) /\ dashboard = app

\* lines 85-91: the callback of $.getJSON
LoadTestSuites ==
    /\ \E items \in {MapArguments(allData)} :
        \E r \in {MapResults([i \in 1..Len(items) |-> testSuite(items[i].first)])} :
           dashboard' = [dashboard EXCEPT !.testSuites = r]
    /\ UNCHANGED <<allData, hashVars, verifyVars, pool, added, execVars>>

----------------------------------------------------------------------------
(* Specifications.                                                         *)

\* Execute on every test of the table.
\* What a test case that ran before may have left in memory: the
\* transactions it added to its own pool, and that pool.
EarlierTx == [BaseTx EXCEPT !.GasFeeCap = 7, !.GasTipCap = 7, !.Sidecar = <<0>>]

EarlierAdds == {<<>>, <<EarlierTx>>}

EarlierPool(q) == IF q = <<>> THEN ZeroPool ELSE AddBlobTransaction(ZeroPool, q[1])

Init ==
    /\ \E i \in 1..Len(Tests), d \in 0..MaxGetPayloadDelay :
           bs = [Tests[i] EXCEPT !.GetPayloadDelay = d]
    /\ pc = "WaitForTTD" /\ stepId = 0 /\ ctx = NilPtr
    /\ \E d \in 0..1 : cl = [Genesis EXCEPT !.PayloadProductionClientDelay = d]
    /\ override = NoOverride /\ log = <<>>
    /\ HashIdle /\ VerifyIdle /\ DashIdle
    /\ \E q \in EarlierAdds : added = q /\ pool = EarlierPool(q)

Next ==
    \/ WaitForTTD
    \/ NewBlobTestContext
    \/ SetPayloadDelay
    \/ StepSendBlobTransactions
    \/ StepNewPayloads
    \/ StepLaunchClients
    \/ StepSendModifiedLatestPayload
    \/ Return

Spec == Init /\ [][Next]_vars

\* Execute is sequential code and every call it makes returns: whatever
\* statement is next is run.
FairSpec == Spec /\ WF_vars(Next)

InitHash ==
    /\ bb \in Bundles /\ commitmentVersion \in Versions /\ hashesResult = HashPending
    /\ VerifyIdle /\ PoolIdle /\ ExecIdle /\ DashIdle

SpecHash == InitHash /\ [][CallVersionedHashes]_vars

\* Errors of eth.TransactionByHash. What comes back next to an error is
\* not specified: any transaction.
EthErrors == {"not found", "context deadline exceeded"}

InitVerify ==
    /\ tx \in Within(BaseTx, 1)
    /\ ethErr \in {None} \cup EthErrors
    /\ returnedTx \in Within(tx, MaxDiff)
    /\ verifyResult = VerifyPending
    /\ HashIdle /\ PoolIdle /\ ExecIdle /\ DashIdle

SpecVerify == InitVerify /\ [][CallVerify]_vars

InitPool == PoolIdle /\ HashIdle /\ VerifyIdle /\ ExecIdle /\ DashIdle

SpecPool == InitPool /\ [][CallAddBlobTransaction]_vars

\* The dashboard after construction, about to load a results file that
\* holds one suite.
InitDash ==
    /\ \E n \in 0..MaxTestCases :
           \E cs \in [1..n -> CaseChoices] : allData = Arr(<<SuiteData(cs)>>)
    /\ dashboard = app
    /\ HashIdle /\ VerifyIdle /\ PoolIdle /\ ExecIdle

SpecDash == InitDash /\ [][LoadTestSuites]_vars

----------------------------------------------------------------------------
(* Properties.                                                             *)

\* No step of the run failed one of its own checks.
NoExpectationError ==
    \A i \in 1..Len(log) : log[i].err \in {None, "client error"}

BlobCounts == [i \in 1..Len(cl.payloads) |-> Len(cl.payloads[i])]

Repeat(v, n) == [i \in 1..n |-> v]

\* C1: Execute starts the steps in table order, one at a time; the first
\* step that returns an error ends the test case: it is the last step
\* started, and no step is started twice.
C1_StepsInOrderFirstErrorAborts ==
    /\ \A i \in 1..Len(log) : log[i].step = i
    /\ \A i \in 1..Len(log) : log[i].err # None => i = Len(log) /\ pc = "fatal"
    /\ Len(log) <= Len(bs.BlobTestSequence)
    /\ pc = "fatal" => Len(log) >= 1 /\ log[Len(log)].err # None
    /\ pc = "loop" => Len(log) = stepId
    /\ pc = "done" => Len(log) = Len(bs.BlobTestSequence)

C1_Witness ==
    /\ pc = "fatal"
    /\ Len(log) >= 2
    /\ Len(log) < Len(bs.BlobTestSequence)

\* C2: every hash returned is 32 bytes long, starts with the version byte and
\* continues with bytes 1..31 of the digest of its commitment, unshifted.
C2_VersionThenDigestTail ==
    hashesResult.err = None =>
        \A i \in 1..Len(hashesResult.hashes.elems) :
            LET h == hashesResult.hashes.elems[i]
                d == Sum256(bb.val.Commitments.elems[i])
            IN  /\ Len(h) = HashLength
                /\ h[1] = commitmentVersion
                /\ \A k \in 2..HashLength : h[k] = d[k]

C2_Witness ==
    /\ hashesResult.err = None
    /\ Len(hashesResult.hashes.elems) = 2
    /\ commitmentVersion # Sum256(bb.val.Commitments.elems[1])[1]

\* The fields C3 lists, and when two values of a field are the same value
\* (an absent byte string or list and an empty one count as the same).
ClaimedFields ==
    {"Nonce", "Gas", "GasFeeCap", "GasTipCap", "BlobGasFeeCap", "Value", "To",
     "Data", "AccessList", "ChainId", "BlobGas", "BlobHashes", "Type"}

SameValue(f, a, b) ==
    IF f \in {"Data", "AccessList", "BlobHashes"} THEN Enc(a) = Enc(b) ELSE a = b

\* C3: VerifyTransactionFromNode returns nil only if every listed field of
\* the returned transaction matches the local one, absent against present
\* included.
C3_NilOnlyIfAllFieldsMatch ==
    verifyResult.kind = "nil" =>
        \A f \in ClaimedFields : SameValue(f, returnedTx[f], tx[f])

\* The field each message names.
MessageField ==
    [Nonce |-> "nonce", Gas |-> "gas", GasPrice |-> "gas price", Value |-> "value",
     To |-> "to", Data |-> "data", AccessList |-> "access list",
     ChainId |-> "chain id", BlobGas |-> "data gas",
     GasFeeCap |-> "max fee per gas", GasTipCap |-> "max priority fee per gas",
     BlobGasFeeCap |-> "max fee per data gas",
     BlobHashes |-> "blob versioned hashes", Type |-> "type"]

\* C4: a mismatch error names a field whose two values differ and carries
\* exactly the returned and the local value of that field.
C4_ErrorNamesFieldAndBothValues ==
    verifyResult.kind = "mismatch" =>
        \E f \in DOMAIN MessageField :
            /\ verifyResult.name = MessageField[f]
            /\ verifyResult.returned = returnedTx[f]
            /\ verifyResult.local = tx[f]
            /\ returnedTx[f] # tx[f]

C4_Witness ==
    /\ verifyResult.kind = "mismatch"
    /\ verifyResult.name = "max fee per data gas"
    /\ returnedTx.Type # tx.Type

\* C5: whenever a step overrides the versioned hashes of a payload, the list
\* the override renders to differs from the canonical list of that payload.
C5_OverrideNeverCanonical ==
    override.ofHashes => override.hashes # override.canonical

\* C6: AddBlobTransaction stores the transaction under its hash, changes no
\* other entry, and changes nothing when the transaction is already stored.
C6_AddInsertsByHashIdempotent ==
    [][ Len(added') = Len(added) + 1 =>
          LET t == added'[Len(added')]
              h == TxHash(t)
          IN  /\ ~pool'.Transactions.isNil
              /\ PoolKeys(pool') = PoolKeys(pool) \cup {h}
              /\ pool'.Transactions.val[h] = t
              /\ \A k \in PoolKeys(pool) \ {h} :
                     pool'.Transactions.val[k] = pool.Transactions.val[k]
              /\ (h \in PoolKeys(pool) /\ pool.Transactions.val[h] = t)
                     => pool' = pool ]_vars

C6_Witness ==
    /\ Len(added) = 3
    /\ added[3] = added[1]
    /\ TxHash(added[2]) # TxHash(added[1])
    /\ Cardinality(PoolKeys(pool)) = 2

\* Blob IDs a payload holds, as a set.
BlobSet(payload) == {payload[i] : i \in 1..Len(payload)}

\* C7: in the Cancun-genesis scenario no expectation fails, and once the run
\* is over the payloads after the first hold MAX_BLOBS_PER_BLOCK blobs each
\* for X / (MAX_BLOBS_PER_BLOCK - TARGET_BLOBS_PER_BLOCK) payloads, then none,
\* then MAX_BLOBS_PER_BLOCK: the blobs of the transaction that was deferred.
C7_GenesisRollover ==
    bs.Name = "Blob Transactions On Block 1, Cancun Genesis" =>
        LET n == DATA_GAS_COST_INCREMENT_EXCEED_BLOBS
                     \div (MAX_BLOBS_PER_BLOCK - TARGET_BLOBS_PER_BLOCK)
            first == TARGET_BLOBS_PER_BLOCK + n * MAX_BLOBS_PER_BLOCK
        IN  /\ NoExpectationError
            /\ pc = "done" =>
                  /\ BlobCounts = <<TARGET_BLOBS_PER_BLOCK>>
                                     \o Repeat(MAX_BLOBS_PER_BLOCK, n)
                                     \o <<0>> \o <<MAX_BLOBS_PER_BLOCK>>
                  /\ BlobSet(cl.payloads[n + 3])
                        = first..(first + MAX_BLOBS_PER_BLOCK - 1)
                  /\ cl.pending = <<>>

C7_Witness ==
    /\ bs.Name = "Blob Transactions On Block 1, Cancun Genesis"
    /\ pc = "done"
    /\ Len(cl.payloads) = 9
    /\ cl.payloads[8] = <<>>

\* C8: in the replacement scenario the transactions share account and nonce,
\* so only the latest is pending, carrying the blob with the latest ID and
\* ten times the fee cap and tip cap of the one before; no expectation fails
\* and the payload holds exactly blob 3.
C8_ReplaceKeepsLastBlob ==
    bs.Name = "Replace Blob Transactions" =>
        /\ NoExpectationError
        /\ (pc = "loop" /\ stepId \in 1..4) =>
              /\ Len(cl.pending) = 1
              /\ cl.pending[1].From = 0
              /\ cl.pending[1].Nonce = 0
              /\ cl.pending[1].Sidecar = <<stepId - 1>>
              /\ cl.pending[1].GasFeeCap = 10 ^ (stepId - 1)
              /\ cl.pending[1].GasTipCap = 10 ^ (stepId - 1)
              /\ Cardinality(PoolKeys(pool)) = stepId
        /\ pc = "done" => cl.payloads = << <<3>> >>

C8_Witness ==
    /\ bs.Name = "Replace Blob Transactions"
    /\ pc = "done"
    /\ cl.payloads = << <<3>> >>
    /\ Cardinality(PoolKeys(pool)) = 4

C10_SingleAccountCounts ==
    bs.Name = "Blob Transaction Ordering, Single Account" =>
        /\ NoExpectationError
        /\ Len(cl.payloads) = 6 =>
              BlobCounts = Repeat(MAX_BLOBS_PER_BLOCK - 1, 4)
                              \o Repeat(MAX_BLOBS_PER_BLOCK, 2)

\* Positions i of a sequence where TARGET_BLOBS_PER_BLOCK one-blob
\* transactions are the first ones submitted and step i + 1 produces one
\* payload.
TargetSendThenPayload(seq) ==
    {i \in 1..(Len(seq) - 1) :
        /\ seq[i].kind = "SendBlobTransactions"
        /\ seq[i].BlobTransactionSendCount = TARGET_BLOBS_PER_BLOCK
        /\ seq[i].BlobsPerTransaction = 0
        /\ seq[i].BlobTransactionMaxDataGasCost >= MIN_DATA_GASPRICE
        /\ \A j \in 1..(i - 1) : seq[j].kind # "SendBlobTransactions"
        /\ seq[i + 1].kind = "NewPayloads"
        /\ seq[i + 1].PayloadCount \in {0, 1}}

\* C11: a NewPayloads step that follows the submission of k =
\* TARGET_BLOBS_PER_BLOCK one-blob transactions (k <= MAX_BLOBS_PER_BLOCK)
\* expects all k blobs: ExpectedIncludedBlobCount = k, ExpectedBlobs = 0..k-1.
C11_TargetSendExpectsAllBlobs ==
    \A i \in TargetSendThenPayload(bs.BlobTestSequence) :
        (pc = "loop" /\ stepId = i /\ TARGET_BLOBS_PER_BLOCK <= MAX_BLOBS_PER_BLOCK) =>
            LET step == bs.BlobTestSequence[i + 1]
            IN  /\ step.ExpectedIncludedBlobCount = TARGET_BLOBS_PER_BLOCK
                /\ step.ExpectedBlobs = Slice(GetBlobList(0, TARGET_BLOBS_PER_BLOCK))

\* The transactions the test case has sent so far.
SentTxs == {pool.Transactions.val[k] : k \in PoolKeys(pool)}

\* C12: blob IDs come from one counter shared by the test case: the IDs
\* attached so far are exactly 0 .. counter - 1, each transaction carries
\* consecutive IDs, no ID is on two transactions (a replacing one included),
\* and every step attaches only IDs at or above the counter it started with.
C12_BlobIDsFromOneCounter ==
    /\ [](~ctx.isNil =>
            /\ UNION {BlobSet(t.Sidecar) : t \in SentTxs}
                  = 0..(ctx.val.CurrentBlobID - 1)
            /\ \A t \in SentTxs :
                  \A j \in 1..Len(t.Sidecar) : t.Sidecar[j] = t.Sidecar[1] + j - 1
            /\ \A t, u \in SentTxs :
                  t # u => BlobSet(t.Sidecar) \cap BlobSet(u.Sidecar) = {})
    /\ [][~ctx.isNil =>
            /\ ctx'.val.CurrentBlobID >= ctx.val.CurrentBlobID
            /\ \A k \in PoolKeys(pool') \ PoolKeys(pool) :
                  \A id \in BlobSet(pool'.Transactions.val[k].Sidecar) :
                      /\ id >= ctx.val.CurrentBlobID
                      /\ id < ctx'.val.CurrentBlobID]_vars

C12_Witness ==
    /\ bs.Name = "Replace Blob Transactions"
    /\ pc = "loop" /\ stepId = 3
    /\ Cardinality(SentTxs) = 3
    /\ \A t \in SentTxs : t.From = 0 /\ t.Nonce = 0
    /\ ctx.val.CurrentBlobID = 3

\* C13: nil and empty stay apart. The Nil Hashes override renders to a nil
\* list and the Empty Hashes override to an empty non-nil one; a bundle with
\* nil commitments gives an error and no list, one with an empty non-nil
\* commitment list gives no error and an empty non-nil list.
C13_NilAndEmptyDistinct ==
    /\ LET ofNil == TestNilHashes.BlobTestSequence[2].VersionedHashes.val
           ofEmpty == TestEmptyHashes.BlobTestSequence[2].VersionedHashes.val
       IN  /\ ofNil.Blobs.isNil
           /\ ~ofEmpty.Blobs.isNil /\ ofEmpty.Blobs.elems = <<>>
           /\ RenderVersionedHashes(ofNil).isNil
           /\ ~RenderVersionedHashes(ofEmpty).isNil
           /\ RenderVersionedHashes(ofEmpty).elems = <<>>
           /\ RenderVersionedHashes(ofNil) # RenderVersionedHashes(ofEmpty)
    /\ (hashesResult # HashPending /\ ~bb.isNil) =>
           /\ bb.val.Commitments.isNil =>
                  hashesResult.err # None /\ hashesResult.hashes.isNil
           /\ (~bb.val.Commitments.isNil /\ bb.val.Commitments.elems = <<>>) =>
                  /\ hashesResult.err = None
                  /\ ~hashesResult.hashes.isNil
                  /\ hashesResult.hashes.elems = <<>>

C13_Witness ==
    /\ ~bb.isNil
    /\ ~bb.val.Commitments.isNil /\ bb.val.Commitments.elems = <<>>
    /\ hashesResult.err = None
    /\ ~hashesResult.hashes.isNil

\* C14: the list returned for a bundle with commitments has one entry per
\* commitment, and entry i is derived from commitment i alone: it continues
\* with the digest of commitment i, and two entries are equal exactly when
\* their commitments are.
C14_PositionAligned ==
    (hashesResult.err = None) =>
        LET cs == bb.val.Commitments.elems
            hs == hashesResult.hashes.elems
        IN  /\ ~hashesResult.hashes.isNil
            /\ Len(hs) = Len(cs)
            /\ \A i \in 1..Len(cs) :
                  SubSeq(hs[i], 2, HashLength) = SubSeq(Sum256(cs[i]), 2, HashLength)
            /\ \A i, j \in 1..Len(cs) : (hs[i] = hs[j]) <=> (cs[i] = cs[j])

C14_Witness ==
    /\ hashesResult.err = None
    /\ Len(hashesResult.hashes.elems) = 2
    /\ bb.val.Commitments.elems[1] > bb.val.Commitments.elems[2]
    /\ hashesResult.hashes.elems[1] # hashesResult.hashes.elems[2]

\* Transactions the first n steps of a sequence send when none fails.
RECURSIVE SendCountUpTo(_, _)
SendCountUpTo(seq, n) ==
    IF n = 0
    THEN 0
    ELSE SendCountUpTo(seq, n - 1)
            + (IF seq[n].kind = "SendBlobTransactions"
               THEN seq[n].BlobTransactionSendCount ELSE 0)

\* C15: Execute creates the context with an empty pool before the first step;
\* all steps work on that one context and pool, so that the pool holds what
\* the steps of this execution sent and nothing an earlier test case added.
C15_FreshContextPerExecution ==
    /\ pc = "SetDelay" => ctx = Ptr(NewContext) /\ pool = ZeroPool
    /\ pc \in {"SetDelay", "loop", "fatal"} \/ (pc = "done" /\ log # <<>>) =>
          /\ ~ctx.isNil
          /\ \A i \in 1..Len(added) : added[i] \notin SentTxs
          /\ \A t \in SentTxs :
                \A id \in BlobSet(t.Sidecar) : id < ctx.val.CurrentBlobID
          /\ (\A i \in 1..Len(log) : log[i].err = None) =>
                Cardinality(SentTxs) = SendCountUpTo(bs.BlobTestSequence, Len(log))

C15_Witness ==
    /\ added # <<>>
    /\ bs.Name = "Blob Transaction Ordering, Multiple Accounts"
    /\ pc = "loop" /\ stepId = 2
    /\ Cardinality(SentTxs) = 10

\* C16: the pool only grows. Starting from the zero pool (nil map), every
\* transaction added so far is found under its hash (the latest one added
\* with that hash), every key is the hash of the transaction stored under it,
\* there is one entry per hash added, and no step removes a key.
C16_PoolOnlyGrows ==
    /\ [](/\ added = <<>> => pool = ZeroPool
          /\ \A i \in 1..Len(added) :
                LET h == TxHash(added[i])
                    last == CHOOSE j \in 1..Len(added) :
                                /\ TxHash(added[j]) = h
                                /\ \A k \in (j + 1)..Len(added) : TxHash(added[k]) # h
                IN  /\ h \in PoolKeys(pool)
                    /\ pool.Transactions.val[h] = added[last]
          /\ \A k \in PoolKeys(pool) : TxHash(pool.Transactions.val[k]) = k
          /\ Cardinality(PoolKeys(pool))
                = Cardinality({TxHash(added[i]) : i \in 1..Len(added)}))
    /\ [][/\ PoolKeys(pool) \subseteq PoolKeys(pool')
          /\ Cardinality(PoolKeys(pool')) >= Cardinality(PoolKeys(pool))]_vars

C16_Witness ==
    /\ Len(added) = 3
    /\ Cardinality(PoolKeys(pool)) = 3
    /\ added[1].From # added[2].From

\* C17: in the two Incorrect DataGasUsed scenarios the step expects a payload
\* without blobs and overwrites its data gas used with 1, respectively
\* DATA_GAS_PER_BLOB; the payload sent then has no blobs and a data gas used
\* that is not DATA_GAS_PER_BLOB times its blob count, and it is rejected.
C17_DataGasUsedRejected ==
    \A w \in {<<"Incorrect DataGasUsed: Non-Zero on Zero Blobs", 1>>,
              <<"Incorrect DataGasUsed: DATA_GAS_PER_BLOB on Zero Blobs",
                DATA_GAS_PER_BLOB>>} :
        bs.Name = w[1] =>
            LET step == bs.BlobTestSequence[1]
            IN  /\ Len(bs.BlobTestSequence) = 1
                /\ step.kind = "NewPayloads"
                /\ step.ExpectedIncludedBlobCount = 0
                /\ step.PayloadCustomizer = CustomPayloadData(w[2])
                /\ NoExpectationError
                /\ (Len(log) = 1 /\ log[1].err = None) =>
                      /\ override.present
                      /\ override.blobs = <<>>
                      /\ override.dataGasUsed = w[2]
                      /\ override.dataGasUsed
                            # DATA_GAS_PER_BLOB * Len(override.blobs)
                      /\ NewPayloadStatus(override.blobs, override.hashes,
                                          override.dataGasUsed, FALSE) = Invalid

C17_Witness ==
    /\ bs.Name = "Incorrect DataGasUsed: DATA_GAS_PER_BLOB on Zero Blobs"
    /\ pc = "done"
    /\ override.dataGasUsed = DATA_GAS_PER_BLOB
    /\ override.blobs = <<>>

\* What C18 says a VersionedHashes value v renders to at position i: the
\* version byte, then the digest tail of the commitment of blob Blobs[i].
VersionAt(v, i) ==
    IF ~v.HashVersions.isNil /\ i <= Len(v.HashVersions.elems)
    THEN v.HashVersions.elems[i]
    ELSE BLOB_COMMITMENT_VERSION_KZG

RendersAsClaimed(v, rendered) ==
    /\ ~rendered.isNil
    /\ Len(rendered.elems) = Len(v.Blobs.elems)
    /\ \A i \in 1..Len(v.Blobs.elems) :
          /\ rendered.elems[i][1] = VersionAt(v, i)
          /\ SubSeq(rendered.elems[i], 2, HashLength)
                = SubSeq(Sum256(Commitment(v.Blobs.elems[i])), 2, HashLength)

\* The step the latest override comes from, when the last step started is
\* one that overrides the hashes and got as far as the payload.
OverridingStep ==
    IF /\ log # <<>>
       /\ log[Len(log)].err \in {None, "blob count", "blob list", "status"}
       /\ bs.BlobTestSequence[Len(log)].kind
             \in {"NewPayloads", "SendModifiedLatestPayload"}
    THEN bs.BlobTestSequence[Len(log)].VersionedHashes
    ELSE NilPtr

\* C18: an override with a blob list renders, position by position, to the
\* canonical hash of Blobs[i] under HashVersions[i] when there is one and
\* under BLOB_COMMITMENT_VERSION_KZG otherwise, in the length and order of
\* Blobs. In the Incorrect Version scenarios the second position alone
\* carries another version, 0x02.
C18_RenderingUsesVersions ==
    /\ (~OverridingStep.isNil /\ ~OverridingStep.val.Blobs.isNil) =>
          /\ override.ofHashes
          /\ RendersAsClaimed(OverridingStep.val, override.hashes)
    /\ \A t \in {TestIncorrectVersion, TestIncorrectVersionSyncing} :
          LET v == t.BlobTestSequence[Len(t.BlobTestSequence)].VersionedHashes.val
              r == RenderVersionedHashes(v)
          IN  /\ Len(r.elems) = 2
              /\ r.elems[1][1] = BLOB_COMMITMENT_VERSION_KZG
              /\ r.elems[2][1] = 2
              /\ RendersAsClaimed(v, r)

C18_Witness ==
    /\ bs.Name = "NewPayloadV3 Versioned Hashes, Incorrect Version"
    /\ ~OverridingStep.isNil
    /\ override.ofHashes
    /\ override.hashes.elems[1][1] = 1
    /\ override.hashes.elems[2][1] = 2

\* Blobs per transaction of the latest SendBlobTransactions step of account a
\* among the first n steps, 0 when there is none.
RECURSIVE LastBlobsPerTx(_, _, _)
LastBlobsPerTx(seq, n, a) ==
    IF n = 0
    THEN 0
    ELSE IF seq[n].kind = "SendBlobTransactions" /\ seq[n].AccountIndex = a
    THEN GetBlobsPerTransaction(seq[n])
    ELSE LastBlobsPerTx(seq, n - 1, a)

\* Blobs submitted by the first n steps, those of replaced transactions
\* excluded: a replacing step leaves its last transaction in place of the
\* one before.
RECURSIVE SubmittedBlobs(_, _)
SubmittedBlobs(seq, n) ==
    IF n = 0
    THEN 0
    ELSE SubmittedBlobs(seq, n - 1)
            + (IF seq[n].kind # "SendBlobTransactions"
               THEN 0
               ELSE IF seq[n].ReplaceTransactions
               THEN GetBlobsPerTransaction(seq[n])
                       - LastBlobsPerTx(seq, n - 1, seq[n].AccountIndex)
               ELSE seq[n].BlobTransactionSendCount * GetBlobsPerTransaction(seq[n]))

\* Blobs the NewPayloads steps among the first n steps expect in all.
RECURSIVE ExpectedBlobsTotal(_, _)
ExpectedBlobsTotal(seq, n) ==
    IF n = 0
    THEN 0
    ELSE ExpectedBlobsTotal(seq, n - 1)
            + (IF seq[n].kind = "NewPayloads"
               THEN GetPayloadCount(seq[n]) * seq[n].ExpectedIncludedBlobCount
               ELSE 0)

\* C19: when a NewPayloads step is about to run, the blobs expected in all
\* payloads up to and including its own do not exceed the blobs submitted
\* before it.
C19_BlobConservation ==
    \A j \in 1..Len(bs.BlobTestSequence) :
        (/\ bs.BlobTestSequence[j].kind = "NewPayloads"
         /\ pc = "loop" /\ stepId = j - 1) =>
            ExpectedBlobsTotal(bs.BlobTestSequence, j)
                <= SubmittedBlobs(bs.BlobTestSequence, j - 1)

\* C20: a failed run reports the failing step by its position counted from
\* one, which is the number of steps started; a run that ends without a
\* failure has run every step of the sequence once, in order; and every run
\* ends, with the failure or after the last step.
C20_ReportsPositionAndTerminates ==
    /\ [](/\ pc = "fatal" =>
                /\ log # <<>>
                /\ log[Len(log)].err # None
                /\ log[Len(log)].step = Len(log)
                /\ log[Len(log)].step = stepId + 1
                /\ log[Len(log)].step \in 1..Len(bs.BlobTestSequence)
          /\ pc = "done" =>
                /\ Len(log) = Len(bs.BlobTestSequence)
                /\ \A i \in 1..Len(log) : log[i].step = i /\ log[i].err = None)
    /\ <>(pc \in {"done", "fatal"})

C20_Witness ==
    /\ pc = "fatal"
    /\ Len(log) = 3
    /\ log[3].step = 3
    /\ log[3].err = "blob count"
    /\ Len(bs.BlobTestSequence) = 5

\* C21: a nil bundle gives the error "nil blob bundle" and a bundle with nil
\* commitments the error "nil commitments", both without a list; every other
\* bundle gives a list and no error.
C21_ErrorsOnlyForNil ==
    hashesResult # HashPending =>
        /\ bb.isNil =>
              hashesResult.err = "nil blob bundle" /\ hashesResult.hashes.isNil
        /\ (~bb.isNil /\ bb.val.Commitments.isNil) =>
              hashesResult.err = "nil commitments" /\ hashesResult.hashes.isNil
        /\ (~bb.isNil /\ ~bb.val.Commitments.isNil) =>
              hashesResult.err = None /\ ~hashesResult.hashes.isNil

C21_Witness ==
    /\ bb.isNil
    /\ hashesResult.err = "nil blob bundle"
    /\ hashesResult.hashes.isNil

\* C22: when the call to the node fails, the error returned is the error of
\* the call, whatever the transactions are: neither nil nor a mismatch.
C22_NodeErrorReturnedAsIs ==
    (verifyResult # VerifyPending /\ ethErr # None) =>
        /\ verifyResult.kind = "eth"
        /\ verifyResult.name = ethErr
        /\ verifyResult.field = ""

C22_Witness ==
    /\ ethErr = "context deadline exceeded"
    /\ returnedTx.Nonce # tx.Nonce
    /\ verifyResult.kind = "eth"
    /\ verifyResult.name = "context deadline exceeded"

KindBefore(seq, i, kind) == \E j \in 1..(i - 1) : seq[j].kind = kind

\* C23: in the sequence under execution, a step addressed to a client other
\* than client 0 comes after a LaunchClients step, and a
\* SendModifiedLatestPayload step comes after a NewPayloads step and expects
\* Invalid; so when such a step is about to run the client it addresses has
\* been launched and a payload has been produced, and no step ever fails for
\* want of either.
C23_AddressedClientAndPayloadExist ==
    LET seq == bs.BlobTestSequence
    IN  /\ \A i \in 1..Len(seq) :
              /\ (seq[i].kind = "SendBlobTransactions" /\ seq[i].ClientIndex # 0) =>
                     KindBefore(seq, i, "LaunchClients")
              /\ seq[i].kind = "SendModifiedLatestPayload" =>
                     /\ seq[i].ClientID # 0 => KindBefore(seq, i, "LaunchClients")
                     /\ KindBefore(seq, i, "NewPayloads")
                     /\ seq[i].ExpectedStatus = Invalid
        /\ (pc = "loop" /\ stepId < Len(seq)) =>
              /\ seq[stepId + 1].kind = "SendBlobTransactions" =>
                     seq[stepId + 1].ClientIndex < ctx.val.Engines
              /\ seq[stepId + 1].kind = "SendModifiedLatestPayload" =>
                     /\ seq[stepId + 1].ClientID < ctx.val.Engines
                     /\ cl.payloads # <<>>
        /\ \A i \in 1..Len(log) : log[i].err \notin {"no such client", "no payload"}

C23_Witness ==
    /\ Len(bs.BlobTestSequence) = 4
    /\ bs.BlobTestSequence[4].kind = "SendModifiedLatestPayload"
    /\ bs.BlobTestSequence[4].ClientID = 1
    /\ Len(log) = 4
    /\ log[4].err = None
    /\ ctx.val.Engines = 2
    /\ cl.payloads # <<>>

\* C24: in the sequence under execution no NewPayloads step expects more
\* than MAX_BLOBS_PER_BLOCK blobs and no SendBlobTransactions step puts more
\* than MAX_BLOBS_PER_BLOCK blobs in a transaction; a NewPayloads step that
\* gives a list of expected blobs gives as many IDs as its expected count,
\* each ID once.
C24_ExpectationsWithinBlockLimit ==
    \A i \in 1..Len(bs.BlobTestSequence) :
        LET step == bs.BlobTestSequence[i]
        IN  /\ step.kind = "NewPayloads" =>
                  /\ step.ExpectedIncludedBlobCount <= MAX_BLOBS_PER_BLOCK
                  /\ ~step.ExpectedBlobs.isNil =>
                        LET ids == step.ExpectedBlobs.elems
                        IN  /\ Len(ids) = step.ExpectedIncludedBlobCount
                            /\ \A a, b \in 1..Len(ids) : ids[a] = ids[b] => a = b
            /\ step.kind = "SendBlobTransactions" =>
                  step.BlobsPerTransaction <= MAX_BLOBS_PER_BLOCK

C24_Witness ==
    /\ bs.BlobTestSequence[1].kind = "SendBlobTransactions"
    /\ bs.BlobTestSequence[2].kind = "NewPayloads"
    /\ bs.BlobTestSequence[2].ExpectedIncludedBlobCount = TARGET_BLOBS_PER_BLOCK
    /\ ~bs.BlobTestSequence[2].ExpectedBlobs.isNil
    /\ Len(bs.BlobTestSequence[2].ExpectedBlobs.elems) = TARGET_BLOBS_PER_BLOCK
    /\ bs.BlobTestSequence[3].BlobsPerTransaction = MAX_BLOBS_PER_BLOCK
    /\ Len(log) >= 3
    /\ log[2].err = None
    /\ log[3].err = None

Delay(c) == c.PayloadProductionClientDelay

\* C25: the context exists and steps run only once WaitForTTD has returned;
\* the first step runs after the delay was configured; configuring sets the
\* delay of the scheduler to GetPayloadDelay (in seconds) when that is not
\* zero and leaves the delay as it was when it is zero.
C25_ReadyThenDelayThenSteps ==
    /\ [](/\ pc = "WaitForTTD" => ~cl.ttd /\ ctx.isNil /\ log = <<>>
          /\ pc = "NewContext" => cl.ttd /\ ctx.isNil /\ log = <<>>
          /\ pc = "SetDelay" => cl.ttd /\ ~ctx.isNil /\ log = <<>> /\ stepId = 0
          /\ (~ctx.isNil \/ log # <<>>) => cl.ttd
          /\ (log # <<>> /\ bs.GetPayloadDelay # 0) => Delay(cl) = bs.GetPayloadDelay)
    /\ [][/\ log' # log => pc = "loop" /\ cl.ttd /\ ~ctx.isNil
          /\ (pc = "SetDelay" /\ pc' # "SetDelay") =>
                /\ pc' = "loop" /\ stepId' = 0 /\ log' = <<>>
                /\ Delay(cl') = IF bs.GetPayloadDelay # 0
                                THEN bs.GetPayloadDelay ELSE Delay(cl)
          /\ (bs.GetPayloadDelay = 0 /\ pc \in {"WaitForTTD", "NewContext", "SetDelay"}) =>
                Delay(cl') = Delay(cl)]_vars

C25_Witness ==
    /\ bs.GetPayloadDelay = 0
    /\ Delay(cl) = 1
    /\ cl.ttd
    /\ pc = "loop"
    /\ Len(log) = 1
    /\ log[1].err = None

\* The client result the dashboard is to show for client k of test case
\* data d.
ClaimedClientResult(d, k) ==
    LET r == d.val.clientResults.val[k]
        infos == d.val.clientInfo.val
    IN  IF k \in DOMAIN infos
        THEN testClientResult(r.val.pass, r.val.details, infos[k].val.name,
                              infos[k].val.versionInfo, infos[k].val.instantiatedAt,
                              infos[k].val.logFile)
        ELSE testClientResult(r.val.pass, r.val.details, Str("Missing client info."),
                              Str(""), Undefined, Str(""))

\* Pass, details and name of a shown client result are those claimed.
ShowsAsClaimed(shown, claimed) ==
    /\ shown.val.pass = claimed.val.pass
    /\ shown.val.details = claimed.val.details
    /\ shown.val.clientName = claimed.val.clientName
    /\ claimed.val.clientName # Str("Missing client info.") =>
          /\ shown.val.clientVersion = claimed.val.clientVersion
          /\ shown.val.clientInstantiated = claimed.val.clientInstantiated
          /\ shown.val.logfile = claimed.val.logfile

\* In every loaded suite the passes and the fails add up to the test cases.
SuiteCountsAddUp ==
    \A s \in 1..Len(dashboard.testSuites) :
        dashboard.testSuites[s].val.passes + dashboard.testSuites[s].val.fails
            = Len(allData.val[s].val.testCases.val)

\* C26: once the results file is loaded, every test case shows one client
\* result per entry of its clientResults, with the pass and details of that
\* entry and the name, version, instantiation time and log file of the
\* clientInfo entry of the same client (the name "Missing client info." when
\* there is none); and the passes and fails of every suite add up to the
\* number of its test cases.
C26_ClientResultsAndSuiteCounts ==
    /\ SuiteCountsAddUp
    /\ \A s \in 1..Len(dashboard.testSuites) :
          LET cases == allData.val[s].val.testCases.val
              shown == dashboard.testSuites[s].val.testCases
          IN  /\ Len(shown) = Len(cases)
              /\ \A i \in 1..Len(cases) :
                    LET ks == Keys(cases[i].val.clientResults)
                        rs == shown[i].val.clientResults
                    IN  /\ Len(rs) = Len(ks)
                        /\ \A j \in 1..Len(ks) :
                              ShowsAsClaimed(rs[j], ClaimedClientResult(cases[i], ks[j]))

====
